---- MODULE Spec2Model ----
(***************************************************************************)
(* Ledger aggregator of the finance application: balance-history           *)
(* reconstruction and income/expense comparison by category                *)
(* (finance/views.py), with the two AJAX endpoints that call them, the     *)
(* validation of submitted transactions (finance/forms.py,                 *)
(* finance/serializers.py) and the cached price feeds                      *)
(* (finance/services.py).                                                  *)
(*                                                                         *)
(* Money is counted in whole cents (Transaction.amount is a DecimalField   *)
(* with two decimal places).  A date is a day ordinal counted from         *)
(* 1 January 2022; a date-time is a record of a date and a time of *)
(* day, time 0 being midnight.  An optional value (None or a value) is a   *)
(* sequence of length 0 or 1.  A string that is parsed or sorted is a      *)
(* sequence of code points.                                                *)
(***************************************************************************)
EXTENDS Integers, Sequences, FiniteSets, Bags, TLC

VARIABLES
    ledger,      \* the Transaction table: a bag of rows
    today,       \* date.today() of the server
    response,    \* the value returned by the call being answered
    categories,  \* the Category table: a set of rows
    cache,       \* Django's cache: key -> value and expiry time
    clock,       \* time.time() of the server, in seconds
    fetched,     \* history: key -> value and time of the last successful fetch
    accounts,    \* the Account table: primary key -> row
    budgets,     \* the Budget table: primary key -> row
    stocks       \* the Stock table: primary key -> row

vars == <<ledger, today, response, categories, cache, clock, fetched,
          accounts, budgets, stocks>>

\* the tables beside Transaction and Category
tableVars == <<accounts, budgets, stocks>>

\* the state of the price-feed lookups
priceVars == <<cache, clock, fetched>>

-----------------------------------------------------------------------------
(* Bounds of the model *)

\* largest number of rows in the Transaction table
MaxTx == 2
\* largest window (in days) passed directly to the aggregation helpers
MaxWindow == 1
\* largest number of writes of other requests during one aggregation
MaxWrites == 2
\* largest number of steps of the clock
MaxTicks == 3

\* instants distinguished within one calendar day; 0 is midnight
TimesOfDay == {0, 1}

Users == {"alice", "bob"}
TransactionTypes == {"income", "expense", "transfer"}
\* amounts in cents
HistoryAmounts == {300, 1000}
\* the web TransactionForm puts no sign condition on the amount
ComparisonAmounts == {-500, 500}
\* days of a stored row, relative to today
DayOffsets == {-2, -1, 0}

\* day ordinal 0
Epoch == [year |-> 2022, month |-> 1, day |-> 1]
\* 1 March 2024 as an ordinal from Epoch
TodayChoices == {790}

-----------------------------------------------------------------------------
(* datetime.date: ordinal <-> (year, month, day), and strftime *)

IsLeap(y) == (y % 4 = 0) /\ ((y % 100 # 0) \/ (y % 400 = 0))

DaysInMonth(y, m) ==
    IF m = 2 THEN (IF IsLeap(y) THEN 29 ELSE 28)
    ELSE IF m \in {4, 6, 9, 11} THEN 30 ELSE 31

RECURSIVE CivilFrom(_, _, _)
CivilFrom(y, m, n) ==
    IF n >= DaysInMonth(y, m)
    THEN IF m = 12 THEN CivilFrom(y + 1, 1, n - DaysInMonth(y, m))
                   ELSE CivilFrom(y, m + 1, n - DaysInMonth(y, m))
    ELSE [year |-> y, month |-> m, day |-> n + 1]

\* the calendar date of a day ordinal
DateOf(ord) == CivilFrom(Epoch.year, Epoch.month, ord)

DigitChars == <<"0", "1", "2", "3", "4", "5", "6", "7", "8", "9">>

\* %d, %m, %y: zero-padded two-digit decimal
TwoDigits(n) == DigitChars[((n \div 10) % 10) + 1] \o DigitChars[(n % 10) + 1]

\* date.strftime(date_format)
Strftime(ord, date_format) ==
    LET c == DateOf(ord)
    IN  IF date_format = "%d.%m"
        THEN TwoDigits(c.day) \o "." \o TwoDigits(c.month)
        ELSE TwoDigits(c.day) \o "." \o TwoDigits(c.month) \o "."
                 \o TwoDigits(c.year % 100)

\* a date compared with a DateTimeField is taken at midnight of that date
Midnight(d) == [date |-> d, time |-> 0]

\* datetime.date(): the calendar day of a date-time
DatePart(dt) == dt.date

\* the order of date-times
DtLess(a, b) == a.date < b.date \/ (a.date = b.date /\ a.time < b.time)
DtLessEq(a, b) == a = b \/ DtLess(a, b)

-----------------------------------------------------------------------------
(* Queryset helpers *)

\* QuerySet.filter: the rows of bag B selected by a condition, with their
\* multiplicity
FilterRows(B, selected) == [t \in selected |-> B[t]]

\* float(trans.amount): the amount, in cents
ToFloat(amount) == amount

\* round(value, 2) of a value held in cents
Round2(cents) == cents

\* variant of SignedAmount: a transfer is subtracted like an expense
SignedAmountTransferOut(trans) ==
    IF trans.transaction_type = "income" THEN ToFloat(trans.amount)
    ELSE 0 - ToFloat(trans.amount)

\* the branch taken for one row by the income / expense / (nothing) chain
SignedAmount(trans) ==
    IF trans.transaction_type = "income" THEN ToFloat(trans.amount)
    ELSE IF trans.transaction_type = "expense" THEN 0 - ToFloat(trans.amount)
    ELSE 0

\* for trans in rows: balance +=/-= float(trans.amount)
RECURSIVE AccumulateBalance(_, _)
AccumulateBalance(rows, balance) ==
    IF DOMAIN rows = {} THEN balance
    ELSE LET trans == CHOOSE x \in DOMAIN rows : TRUE
             rest == [x \in DOMAIN rows \ {trans} |-> rows[x]]
         IN  AccumulateBalance(rest, balance + rows[trans] * SignedAmount(trans))

-----------------------------------------------------------------------------
(* calculate_balance_history *)

\* variant of InitialTransactions: the rows of every user
InitialTransactionsOfAnyUser(rows, user, start_date) ==
    FilterRows(rows, {t \in DOMAIN rows :
                         DtLess(t.transaction_date, Midnight(start_date))})

\* Transaction.objects.filter(account__user=user, transaction_date__lt=start_date)
InitialTransactions(rows, user, start_date) ==
    FilterRows(rows, {t \in DOMAIN rows :
                         /\ t.user = user
                         /\ DtLess(t.transaction_date, Midnight(start_date))})

\* variant of PeriodTransactions: the rows of every user
PeriodTransactionsOfAnyUser(rows, user, start_date, end_date) ==
    FilterRows(rows, {t \in DOMAIN rows :
                         /\ DtLessEq(Midnight(start_date), t.transaction_date)
                         /\ DtLessEq(t.transaction_date, Midnight(end_date))})

\* Transaction.objects.filter(account__user=user,
\*     transaction_date__gte=start_date, transaction_date__lte=end_date)
PeriodTransactions(rows, user, start_date, end_date) ==
    FilterRows(rows, {t \in DOMAIN rows :
                         /\ t.user = user
                         /\ DtLessEq(Midnight(start_date), t.transaction_date)
                         /\ DtLessEq(t.transaction_date, Midnight(end_date))})

InitialBalance(rows, user, start_date) ==
    AccumulateBalance(InitialTransactions(rows, user, start_date), 0)

\* daily_changes: the defaultdict keyed by trans.transaction_date.date()
DailyChanges(period) ==
    [d \in {DatePart(t.transaction_date) : t \in DOMAIN period} |->
        AccumulateBalance(
            FilterRows(period, {t \in DOMAIN period :
                                    DatePart(t.transaction_date) = d}), 0)]

\* daily_changes.get(current_date, 0)
DictGet(dict, key, default) == IF key \in DOMAIN dict THEN dict[key] ELSE default

\* variant of DateFormat: the year is shown from a window of 90 days on
DateFormatFrom90(days) ==
    IF days <= 30 THEN "%d.%m"
    ELSE IF days < 90 THEN "%d.%m"
    ELSE "%d.%m.%y"

DateFormat(days) ==
    IF days <= 30 THEN "%d.%m"
    ELSE IF days <= 90 THEN "%d.%m"
    ELSE "%d.%m.%y"

\* one pass of the body of the loop over the days of the period
LoopBody(st, current_date, daily_changes, date_format) ==
    LET balance == st.current_balance + DictGet(daily_changes, current_date, 0)
    IN  [current_balance |-> balance,
         balance_labels |-> Append(st.balance_labels,
                                   Strftime(current_date, date_format)),
         balance_data |-> Append(st.balance_data, Round2(balance))]

\* while current_date <= end_date: LoopBody; current_date += 1
\* (the days are walked in order; the range is halved, and the first half
\* is evaluated before the second is entered, only to keep the evaluation
\* shallow for a window of 365 days)
RECURSIVE WalkDays(_, _, _, _, _)
WalkDays(current_date, end_date, st, daily_changes, date_format) ==
    IF current_date > end_date THEN st
    ELSE IF current_date = end_date
    THEN LoopBody(st, current_date, daily_changes, date_format)
    ELSE LET mid == (current_date + end_date) \div 2
             first == WalkDays(current_date, mid, st, daily_changes, date_format)
         IN  IF Len(first.balance_data) > 0
             THEN WalkDays(mid + 1, end_date, first, daily_changes, date_format)
             ELSE st

\* variant of calculate_balance_history: the loop stops before end_date
calculate_balance_history_exclusive(rows, now, user, days) ==
    LET end_date == now
        start_date == end_date - days
        initial_balance == InitialBalance(rows, user, start_date)
        period == PeriodTransactions(rows, user, start_date, end_date)
        final == WalkDays(start_date, end_date - 1,
                          [current_balance |-> initial_balance,
                           balance_labels |-> <<>>, balance_data |-> <<>>],
                          DailyChanges(period), DateFormat(days))
    IN  [labels |-> final.balance_labels, data |-> final.balance_data]

\* variant of calculate_balance_history: the running total starts at 0
calculate_balance_history_from_zero(rows, now, user, days) ==
    LET end_date == now
        start_date == end_date - days
        period == PeriodTransactions(rows, user, start_date, end_date)
        final == WalkDays(start_date, end_date,
                          [current_balance |-> 0,
                           balance_labels |-> <<>>, balance_data |-> <<>>],
                          DailyChanges(period), DateFormat(days))
    IN  [labels |-> final.balance_labels, data |-> final.balance_data]

calculate_balance_history(rows, now, user, days) ==
    LET end_date == now
        start_date == end_date - days
        initial_balance == InitialBalance(rows, user, start_date)
        period == PeriodTransactions(rows, user, start_date, end_date)
        final == WalkDays(start_date, end_date,
                          [current_balance |-> initial_balance,
                           balance_labels |-> <<>>, balance_data |-> <<>>],
                          DailyChanges(period), DateFormat(days))
    IN  [labels |-> final.balance_labels, data |-> final.balance_data]

-----------------------------------------------------------------------------
(* Category table and calculate_comparison_data *)

\* optional values: None, or a value
None == <<>>
Some(v) == <<v>>

\* truth value of an optional number: None and 0 are false
Truthy(opt) == opt # None /\ opt[1] # 0

\* category names as code points
NameFood == <<70, 111, 111, 100>>
NameSalary == <<83, 97, 108, 97, 114, 121>>

\* Category.objects: names are not unique, "Food" names two categories
Categories ==
    {[id |-> 1, category_name |-> NameSalary, category_type |-> "income"],
     [id |-> 2, category_name |-> NameFood, category_type |-> "expense"],
     [id |-> 3, category_name |-> NameFood, category_type |-> "income"]}

\* str < str: lexicographic order on code points
RECURSIVE StrLess(_, _)
StrLess(a, b) ==
    IF b = <<>> THEN FALSE
    ELSE IF a = <<>> THEN TRUE
    ELSE IF Head(a) # Head(b) THEN Head(a) < Head(b)
    ELSE StrLess(Tail(a), Tail(b))

\* sorted(set of str)
RECURSIVE Sorted(_)
Sorted(S) ==
    IF S = {} THEN <<>>
    ELSE LET least == CHOOSE x \in S : \A y \in S \ {x} : StrLess(x, y)
         IN  <<least>> \o Sorted(S \ {least})

\* Q(transactions__transaction_date__gte=start_date,
\*   transactions__transaction_date__lte=end_date), or Q() when days is falsy
DateFilter(days, now, trans) ==
    IF Truthy(days)
    THEN /\ DtLessEq(Midnight(now - days[1]), trans.transaction_date)
         /\ DtLessEq(trans.transaction_date, Midnight(now))
    ELSE TRUE

\* sum of the amounts of a bag of rows
RECURSIVE SumAmounts(_)
SumAmounts(rows) ==
    IF DOMAIN rows = {} THEN 0
    ELSE LET trans == CHOOSE x \in DOMAIN rows : TRUE
             rest == [x \in DOMAIN rows \ {trans} |-> rows[x]]
         IN  rows[trans] * trans.amount + SumAmounts(rest)

\* annotate(total=Sum('transactions__amount',
\*     filter=Q(transactions__account__user=user) & date_filter))
\* Sum over no row is NULL
AnnotateTotal(rows, now, user, days, cat) ==
    LET matching == FilterRows(rows, {t \in DOMAIN rows :
                                         /\ t.category = cat.id
                                         /\ t.user = user
                                         /\ DateFilter(days, now, t)})
    IN  IF DOMAIN matching = {} THEN None ELSE Some(SumAmounts(matching))

\* a row of the annotated queryset
Annotated(rows, now, user, days, cat) ==
    [category_name |-> cat.category_name,
     total |-> AnnotateTotal(rows, now, user, days, cat)]

\* order_by('-total'): larger totals first; rows without a total and ties in
\* the order of the primary key
OrderKey(row) == IF row.total = None THEN 0 ELSE row.total[1]
RECURSIVE OrderByTotalDesc(_)
OrderByTotalDesc(cats) ==
    IF cats = {} THEN <<>>
    ELSE LET first == CHOOSE c \in cats : \A d \in cats \ {c} :
                          \/ (c.row.total # None /\ d.row.total = None)
                          \/ ((c.row.total = None) = (d.row.total = None)
                              /\ \/ OrderKey(c.row) > OrderKey(d.row)
                                 \/ (OrderKey(c.row) = OrderKey(d.row) /\ c.id < d.id))
         IN  <<first.row>> \o OrderByTotalDesc(cats \ {first})

\* Category.objects.filter(category_type=kind).annotate(...).order_by('-total')
ByCategory(rows, now, user, days, kind) ==
    OrderByTotalDesc({[id |-> c.id, row |-> Annotated(rows, now, user, days, c)] :
                          c \in {x \in categories : x.category_type = kind}})

\* variant of Counted: every category with a total is kept
CountedAnyTotal(total) == total # None

\* cat.total and cat.total > 0
Counted(total) == Truthy(total) /\ total[1] > 0

\* for cat in queryset: if cat.total and cat.total > 0:
\*     all_categories.add(name); dict[name] = float(cat.total)
RECURSIVE CollectTotals(_, _)
CollectTotals(queryset, acc) ==
    IF queryset = <<>> THEN acc
    ELSE LET cat == Head(queryset)
         IN  IF Counted(cat.total)
             THEN CollectTotals(Tail(queryset),
                      [all_categories |-> acc.all_categories \cup {cat.category_name},
                       dict |-> (cat.category_name :> ToFloat(cat.total[1]))
                                    @@ acc.dict])
             ELSE CollectTotals(Tail(queryset), acc)

\* variant of Series: a category missing from dict is left out
SeriesOmitting(dict, sorted_categories) ==
    LET present == SelectSeq(sorted_categories, LAMBDA c : c \in DOMAIN dict)
    IN  [i \in 1 .. Len(present) |-> dict[present[i]]]

\* [dict.get(cat, 0) for cat in sorted_categories]
Series(dict, sorted_categories) ==
    [i \in 1 .. Len(sorted_categories) |-> DictGet(dict, sorted_categories[i], 0)]

calculate_comparison_data(rows, now, user, days) ==
    LET expense_by_category == ByCategory(rows, now, user, days, "expense")
        income_by_category == ByCategory(rows, now, user, days, "income")
        expense == CollectTotals(expense_by_category,
                                 [all_categories |-> {}, dict |-> <<>>])
        income == CollectTotals(income_by_category,
                                [all_categories |-> expense.all_categories,
                                 dict |-> <<>>])
        sorted_categories == Sorted(income.all_categories)
    IN  [labels |-> sorted_categories,
         expenses |-> Series(expense.dict, sorted_categories),
         incomes |-> Series(income.dict, sorted_categories)]

-----------------------------------------------------------------------------
(* The helpers over rows in the order in which the store returns them.  A   *)
(* queryset is a sequence; rows that the ordering of the query does not     *)
(* separate come in an order of the store's choosing.                       *)

\* the sequences in which the store can return the rows of a table
RECURSIVE RowSequences(_)
RowSequences(B) ==
    IF DOMAIN B = {} THEN {<<>>}
    ELSE UNION {{<<t>> \o s : s \in RowSequences(B (-) SetToBag({t}))} :
                   t \in DOMAIN B}

\* for trans in queryset: balance +=/-= float(trans.amount)
RECURSIVE AccumulateInOrder(_, _)
AccumulateInOrder(queryset, balance) ==
    IF queryset = <<>> THEN balance
    ELSE AccumulateInOrder(Tail(queryset), balance + SignedAmount(Head(queryset)))

\* variant of UpdateDailyChanges: the change of a row replaces the day's entry
RECURSIVE UpdateDailyChangesAssigning(_, _)
UpdateDailyChangesAssigning(queryset, daily_changes) ==
    IF queryset = <<>> THEN daily_changes
    ELSE LET trans == Head(queryset)
         IN  UpdateDailyChangesAssigning(Tail(queryset),
                 (DatePart(trans.transaction_date) :> SignedAmount(trans))
                     @@ daily_changes)

\* for trans in period_transactions: daily_changes[trans_date] +=/-= ...
RECURSIVE UpdateDailyChanges(_, _)
UpdateDailyChanges(queryset, daily_changes) ==
    IF queryset = <<>> THEN daily_changes
    ELSE LET trans == Head(queryset)
             trans_date == DatePart(trans.transaction_date)
         IN  UpdateDailyChanges(Tail(queryset),
                 (trans_date :> DictGet(daily_changes, trans_date, 0)
                                    + SignedAmount(trans))
                     @@ daily_changes)

\* calculate_balance_history on the rows in store order; the period rows are
\* visited in an order the store chooses among those of equal
\* transaction_date, here in any order
calculate_balance_history_in_order(order, now, user, days) ==
    LET end_date == now
        start_date == end_date - days
        initial_transactions ==
            SelectSeq(order, LAMBDA t :
                /\ t.user = user
                /\ DtLess(t.transaction_date, Midnight(start_date)))
        period_transactions ==
            SelectSeq(order, LAMBDA t :
                /\ t.user = user
                /\ DtLessEq(Midnight(start_date), t.transaction_date)
                /\ DtLessEq(t.transaction_date, Midnight(end_date)))
        initial_balance == AccumulateInOrder(initial_transactions, 0)
        final == WalkDays(start_date, end_date,
                          [current_balance |-> initial_balance,
                           balance_labels |-> <<>>, balance_data |-> <<>>],
                          UpdateDailyChanges(period_transactions, <<>>),
                          DateFormat(days))
    IN  [labels |-> final.balance_labels, data |-> final.balance_data]

\* the sequences in which the store can return the annotated categories of a
\* kind under order_by('-total'): totals never increase; categories of equal
\* total, and those without a total, come where the store puts them
RECURSIVE CategorySequences(_)
CategorySequences(cats) ==
    IF cats = {} THEN {<<>>}
    ELSE UNION {{<<c>> \o s : s \in CategorySequences(cats \ {c})} :
                   c \in {x \in cats :
                             \A d \in cats :
                                 (x.total # None /\ d.total # None)
                                     => x.total[1] >= d.total[1]}}

\* the annotated categories of a kind, each with its primary key
AnnotatedOfKind(rows, now, user, days, kind) ==
    {[id |-> c.id, category_name |-> c.category_name,
      total |-> AnnotateTotal(rows, now, user, days, c)] :
         c \in {x \in categories : x.category_type = kind}}

\* calculate_comparison_data on the two querysets in store order
calculate_comparison_data_in_order(expense_by_category, income_by_category) ==
    LET expense == CollectTotals(expense_by_category,
                                 [all_categories |-> {}, dict |-> <<>>])
        income == CollectTotals(income_by_category,
                                [all_categories |-> expense.all_categories,
                                 dict |-> <<>>])
        sorted_categories == Sorted(income.all_categories)
    IN  [labels |-> sorted_categories,
         expenses |-> Series(expense.dict, sorted_categories),
         incomes |-> Series(income.dict, sorted_categories)]

-----------------------------------------------------------------------------
(* The AJAX endpoints get_balance_history and get_comparison_data *)

\* query-string values
Str30 == <<51, 48>>
Str90 == <<57, 48>>
Str365 == <<51, 54, 53>>
Str7 == <<55>>
StrAbc == <<97, 98, 99>>
StrAll == <<97, 108, 108>>
StrMinus1 == <<45, 49>>
StrPadded30 == <<32, 51, 48>>

IsSpace(c) == c \in {9, 10, 11, 12, 13, 32}
IsDigit(c) == c \in 48 .. 57

RECURSIVE LStrip(_)
LStrip(s) == IF s # <<>> /\ IsSpace(Head(s)) THEN LStrip(Tail(s)) ELSE s

RECURSIVE RStrip(_)
RStrip(s) ==
    IF s # <<>> /\ IsSpace(s[Len(s)]) THEN RStrip(SubSeq(s, 1, Len(s) - 1)) ELSE s

RECURSIVE DigitsValue(_, _)
DigitsValue(s, acc) ==
    IF s = <<>> THEN acc ELSE DigitsValue(Tail(s), acc * 10 + (Head(s) - 48))

\* int(str): surrounding white space, an optional sign, decimal digits;
\* anything else raises ValueError
ParseInt(s) ==
    LET stripped == RStrip(LStrip(s))
        signed == stripped # <<>> /\ Head(stripped) \in {43, 45}
        digits == IF signed THEN Tail(stripped) ELSE stripped
    IN  IF digits = <<>> \/ \E i \in 1 .. Len(digits) : ~IsDigit(digits[i])
        THEN [ok |-> FALSE, error |-> "invalid literal for int() with base 10"]
        ELSE [ok |-> TRUE,
              value |-> IF signed /\ Head(stripped) = 45
                        THEN 0 - DigitsValue(digits, 0)
                        ELSE DigitsValue(digits, 0)]

Anonymous == "anonymous"

\* @login_required: an anonymous request is redirected to the login page
LoginRedirect == [status |-> 302, body |-> [success |-> FALSE, error |-> "login"]]

\* JsonResponse({'success': True, 'data': data})
JsonSuccess(data) == [status |-> 200, body |-> [success |-> TRUE, data |-> data]]

\* except Exception as e: JsonResponse({'success': False, 'error': str(e)}, status=500)
JsonFailure(error) == [status |-> 500, body |-> [success |-> FALSE, error |-> error]]

\* if days not in [30, 90, 365]: days = 30
ClampDays(days) == IF days \in {30, 90, 365} THEN days ELSE 30

get_balance_history(rows, now, request) ==
    IF request.user = Anonymous THEN LoginRedirect
    ELSE LET parsed == IF "days" \in DOMAIN request.GET
                       THEN ParseInt(request.GET["days"])
                       ELSE [ok |-> TRUE, value |-> 30]
         IN  IF ~parsed.ok THEN JsonFailure(parsed.error)
             ELSE JsonSuccess(calculate_balance_history(rows, now, request.user,
                                                        ClampDays(parsed.value)))

get_comparison_data(rows, now, request) ==
    IF request.user = Anonymous THEN LoginRedirect
    ELSE LET days_param == IF "days" \in DOMAIN request.GET
                           THEN request.GET["days"] ELSE Str30
             parsed == ParseInt(days_param)
         IN  IF days_param = StrAll
             THEN JsonSuccess(calculate_comparison_data(rows, now, request.user, None))
             ELSE IF ~parsed.ok THEN JsonFailure(parsed.error)
             ELSE JsonSuccess(calculate_comparison_data(rows, now, request.user,
                                                        Some(ClampDays(parsed.value))))

-----------------------------------------------------------------------------
(* The endpoints on a store that may be unavailable.  The outcome of a      *)
(* view is the response it returns or the exception it lets through;        *)
(* attempts counts the calls of the aggregation helper.                     *)

\* the helper called on the store: its value, or the exception of the
\* database driver when the store is unavailable
Aggregate(store_up, value) ==
    IF store_up THEN [raised |-> FALSE, value |-> value]
    ELSE [raised |-> TRUE, error |-> "OperationalError"]

Returned(http, attempts) == [raised |-> FALSE, http |-> http, attempts |-> attempts]

\* variant of HandleException: only ValueError is caught
HandleExceptionValueErrorOnly(error, attempts) ==
    IF error = "OperationalError"
    THEN [raised |-> TRUE, error |-> error, attempts |-> attempts]
    ELSE Returned(JsonFailure(error), attempts)

\* except Exception as e: return JsonResponse({... 'error': str(e)}, status=500)
HandleException(error, attempts) == Returned(JsonFailure(error), attempts)

\* the try block: one call of the helper, then the JsonResponse
TryAggregate(store_up, value) ==
    LET called == Aggregate(store_up, value)
    IN  IF called.raised THEN HandleException(called.error, 1)
        ELSE Returned(JsonSuccess(called.value), 1)

get_balance_history_on(rows, now, request, store_up) ==
    IF request.user = Anonymous THEN Returned(LoginRedirect, 0)
    ELSE LET parsed == IF "days" \in DOMAIN request.GET
                       THEN ParseInt(request.GET["days"])
                       ELSE [ok |-> TRUE, value |-> 30]
         IN  IF ~parsed.ok THEN HandleException(parsed.error, 0)
             ELSE TryAggregate(store_up,
                      calculate_balance_history(rows, now, request.user,
                                                ClampDays(parsed.value)))

get_comparison_data_on(rows, now, request, store_up) ==
    IF request.user = Anonymous THEN Returned(LoginRedirect, 0)
    ELSE LET days_param == IF "days" \in DOMAIN request.GET
                           THEN request.GET["days"] ELSE Str30
             parsed == ParseInt(days_param)
         IN  IF days_param = StrAll
             THEN TryAggregate(store_up,
                      calculate_comparison_data(rows, now, request.user, None))
             ELSE IF ~parsed.ok THEN HandleException(parsed.error, 0)
             ELSE TryAggregate(store_up,
                      calculate_comparison_data(rows, now, request.user,
                                                Some(ClampDays(parsed.value))))

-----------------------------------------------------------------------------
(* The price feeds: BinanceService.get_top_cryptos and                      *)
(* StockService.get_stock_price (finance/services.py), read through         *)
(* Django's cache.  Prices and volumes are whole numbers.  Of a result      *)
(* entry the fields name, price_formatted and volume_formatted, functions   *)
(* of symbol, price and volume_24h, are left out.                           *)

StrUSDT == <<85, 83, 68, 84>>
StrDOWN == <<68, 79, 87, 78>>
StrUP == <<85, 80>>
StrBEAR == <<66, 69, 65, 82>>
StrBULL == <<66, 85, 76, 76>>
SymbolBTCUSDT == <<66, 84, 67>> \o StrUSDT
SymbolETHUSDT == <<69, 84, 72>> \o StrUSDT
SymbolETHBTC == <<69, 84, 72, 66, 84, 67>>
SymbolBTCUPUSDT == <<66, 84, 67>> \o StrUP \o StrUSDT
TickerLower == <<97, 97, 112, 108>>
TickerUpper == <<65, 65, 80, 76>>

\* sub occurs in s at position i
OccursAt(s, sub, i) ==
    /\ i + Len(sub) - 1 <= Len(s)
    /\ \A k \in 1 .. Len(sub) : s[i + k - 1] = sub[k]

\* sub in s
Contains(s, sub) == \E i \in 1 .. Len(s) : OccursAt(s, sub, i)

\* s.endswith(suffix)
EndsWith(s, suffix) ==
    Len(s) >= Len(suffix) /\ OccursAt(s, suffix, Len(s) - Len(suffix) + 1)

\* s.replace(old, '')
RECURSIVE Remove(_, _)
Remove(s, old) ==
    IF s = <<>> THEN <<>>
    ELSE IF OccursAt(s, old, 1) THEN Remove(SubSeq(s, Len(old) + 1, Len(s)), old)
    ELSE <<Head(s)>> \o Remove(Tail(s), old)

\* s.upper()
Upper(s) == [i \in 1 .. Len(s) |-> IF s[i] >= 97 /\ s[i] <= 122 THEN s[i] - 32 ELSE s[i]]

\* str(n) of an integer
RECURSIVE NatStr(_)
NatStr(n) == IF n < 10 THEN <<48 + n>> ELSE NatStr(n \div 10) \o <<48 + (n % 10)>>
IntStr(n) == IF n < 0 THEN <<45>> \o NatStr(0 - n) ELSE NatStr(n)

\* cache.get(key): None when the key is absent or its entry has expired
CacheGet(key) ==
    IF key \in DOMAIN cache /\ clock < cache[key].expires
    THEN Some(cache[key].value) ELSE None

\* cache.set(key, value, timeout)
CacheSet(key, value, timeout) ==
    (key :> [value |-> value, expires |-> clock + timeout]) @@ cache

\* BinanceService.CACHE_TIMEOUT, StockService.CACHE_TIMEOUT
BinanceCacheTimeout == 300
StockCacheTimeout == 600

\* item['symbol'].endswith('USDT') and not any(x in item['symbol'] for x in
\* ['DOWN', 'UP', 'BEAR', 'BULL'])
IsUsdtPair(item) ==
    /\ EndsWith(item.symbol, StrUSDT)
    /\ ~\E x \in {StrDOWN, StrUP, StrBEAR, StrBULL} : Contains(item.symbol, x)

\* sorted(pairs, key=quoteVolume, reverse=True): stable, pairs of equal volume
\* keep their order
RECURSIVE SortedByVolume(_)
SortedByVolume(pairs) ==
    IF pairs = <<>> THEN <<>>
    ELSE LET first == CHOOSE i \in 1 .. Len(pairs) :
                          /\ \A j \in 1 .. Len(pairs) :
                                 pairs[i].quoteVolume >= pairs[j].quoteVolume
                          /\ \A j \in 1 .. i - 1 :
                                 pairs[j].quoteVolume < pairs[i].quoteVolume
         IN  <<pairs[first]>> \o
                 SortedByVolume(SubSeq(pairs, 1, first - 1)
                                    \o SubSeq(pairs, first + 1, Len(pairs)))

\* seq[:limit]
Slice(seq, limit) ==
    IF limit >= 0
    THEN SubSeq(seq, 1, IF limit < Len(seq) THEN limit ELSE Len(seq))
    ELSE SubSeq(seq, 1, Len(seq) + limit)

\* an entry of the result list
FormatPair(pair) ==
    [symbol |-> Remove(pair.symbol, StrUSDT),
     price |-> pair.lastPrice,
     change_24h |-> pair.priceChangePercent,
     volume_24h |-> pair.quoteVolume]

TopCryptosKey(limit) == [prefix |-> "binance_top_cryptos_", arg |-> IntStr(limit)]

\* variant of CachedList: a cached list is used whenever the key is cached
CachedListIsNotNone(cached_data) == cached_data # None

\* if cached_data: (a list)
CachedList(cached_data) == cached_data # None /\ Len(cached_data[1]) > 0

\* item['symbol'] raises KeyError for an item of the feed's body that has no
\* symbol
HasSymbols(data) == \A i \in DOMAIN data : "symbol" \in DOMAIN data[i]

\* get_top_cryptos(limit) when the remote feed would give answer: the value
\* returned, whether the feed was contacted, the cache afterwards, and
\* whether the result was stored
get_top_cryptos(limit, answer) ==
    LET cache_key == TopCryptosKey(limit)
        cached_data == CacheGet(cache_key)
    IN  IF CachedList(cached_data)
        THEN [result |-> cached_data[1], contacted |-> FALSE, cache |-> cache,
              stored |-> FALSE]
        ELSE IF ~answer.ok \/ ~HasSymbols(answer.data)
        THEN [result |-> <<>>, contacted |-> TRUE, cache |-> cache,
              stored |-> FALSE]
        ELSE LET usdt_pairs == SelectSeq(answer.data, LAMBDA item : IsUsdtPair(item))
                 sorted_pairs == Slice(SortedByVolume(usdt_pairs), limit)
                 result == [i \in 1 .. Len(sorted_pairs) |-> FormatPair(sorted_pairs[i])]
             IN  [result |-> result, contacted |-> TRUE,
                  cache |-> CacheSet(cache_key, result, BinanceCacheTimeout),
                  stored |-> TRUE]

StockPriceKey(ticker) == [prefix |-> "stock_price_", arg |-> Upper(ticker)]

\* get_stock_price(ticker) when the remote feed would give answer; the value
\* returned is None or a dict
get_stock_price(ticker, answer) ==
    LET cache_key == StockPriceKey(ticker)
        cached_data == CacheGet(cache_key)
        miss == [result |-> None, contacted |-> TRUE, cache |-> cache,
                 stored |-> FALSE]
    IN  IF cached_data # None /\ cached_data[1] # None
        THEN [result |-> cached_data[1], contacted |-> FALSE, cache |-> cache,
              stored |-> FALSE]
        ELSE IF ~answer.ok \/ ~answer.has_chart THEN miss
        ELSE IF ~Truthy(answer.regularMarketPrice) THEN miss
        ELSE LET current_price == answer.regularMarketPrice[1]
                 previous_close == answer.previousClose
                 change == IF Truthy(previous_close)
                           THEN current_price - previous_close[1] ELSE 0
                 stock_data ==
                     Some([ticker |-> Upper(ticker),
                           price |-> current_price,
                           previous_close |-> IF Truthy(previous_close)
                                              THEN previous_close ELSE None,
                           change |-> change])
             IN  [result |-> stock_data, contacted |-> TRUE,
                  cache |-> CacheSet(cache_key, stock_data, StockCacheTimeout),
                  stored |-> TRUE]

StockInfoKey(ticker) == [prefix |-> "stock_info_", arg |-> Upper(ticker)]

\* variant of get_stock_info: the None of a failed fetch is stored as well
get_stock_info_storing_failures(ticker, answer) ==
    LET cache_key == StockInfoKey(ticker)
        cached_data == CacheGet(cache_key)
        stock_info ==
            IF ~answer.ok \/ ~answer.has_summary THEN None
            ELSE Some([ticker |-> Upper(ticker), price |-> answer.raw])
    IN  IF cached_data # None /\ cached_data[1] # None
        THEN [result |-> cached_data[1], contacted |-> FALSE, cache |-> cache,
              stored |-> FALSE]
        ELSE [result |-> stock_info, contacted |-> TRUE,
              cache |-> CacheSet(cache_key, stock_info, StockCacheTimeout),
              stored |-> TRUE]

\* get_stock_info(ticker) when the remote feed would give answer; the value
\* returned is None or a dict, whose price is the raw regularMarketPrice of
\* the summary or None
get_stock_info(ticker, answer) ==
    LET cache_key == StockInfoKey(ticker)
        cached_data == CacheGet(cache_key)
        miss == [result |-> None, contacted |-> TRUE, cache |-> cache,
                 stored |-> FALSE]
    IN  IF cached_data # None /\ cached_data[1] # None
        THEN [result |-> cached_data[1], contacted |-> FALSE, cache |-> cache,
              stored |-> FALSE]
        ELSE IF ~answer.ok \/ ~answer.has_summary THEN miss
        ELSE LET stock_info == Some([ticker |-> Upper(ticker), price |-> answer.raw])
             IN  [result |-> stock_info, contacted |-> TRUE,
                  cache |-> CacheSet(cache_key, stock_info, StockCacheTimeout),
                  stored |-> TRUE]

-----------------------------------------------------------------------------
(* State machines.  The server answers one request at a time: a value is    *)
(* returned before the next request is handled.                             *)

NoResponse == [op |-> "none"]

\* rows of the Transaction table read by calculate_balance_history
HistoryRows(now) ==
    [user : Users,
     transaction_type : TransactionTypes,
     amount : HistoryAmounts,
     transaction_date : [date : {now + o : o \in DayOffsets}, time : TimesOfDay],
     category : {0}]

\* rows of the Transaction table read by calculate_comparison_data
ComparisonRows(now) ==
    [user : Users,
     transaction_type : TransactionTypes,
     amount : ComparisonAmounts,
     transaction_date : {Midnight(now - 2), Midnight(now)},
     category : {0} \cup {c.id : c \in Categories}]

\* every user owns one account; there is no budget and no stock
InitTables ==
    /\ accounts = [pk \in 1 .. Cardinality(Users) |->
                      [user |-> IF pk = 1 THEN "alice" ELSE "bob", balance |-> 0]]
    /\ budgets = <<>>
    /\ stocks = <<>>

\* nothing is cached when the server starts
InitPrices ==
    /\ cache = <<>>
    /\ clock = 0
    /\ fetched = <<>>

Init ==
    /\ ledger = EmptyBag
    /\ today \in TodayChoices
    /\ response = NoResponse
    /\ categories = Categories
    /\ InitPrices
    /\ InitTables

\* transaction_add: form.save() of a valid TransactionForm adds a row
SaveTransaction(trans) ==
    /\ response = NoResponse
    /\ BagCardinality(ledger) < MaxTx
    /\ ledger' = ledger (+) SetToBag({trans})
    /\ UNCHANGED <<today, response, categories, priceVars, tableVars>>

\* transaction_delete: transaction.delete() removes a row
DeleteTransaction(trans) ==
    /\ response = NoResponse
    /\ BagIn(trans, ledger)
    /\ ledger' = ledger (-) SetToBag({trans})
    /\ UNCHANGED <<today, response, categories, priceVars, tableVars>>

\* the returned value reaches the caller
Return ==
    /\ response # NoResponse
    /\ response' = NoResponse
    /\ UNCHANGED <<ledger, today, categories, priceVars, tableVars>>

CallBalanceHistory(user, days) ==
    /\ response = NoResponse
    /\ response' = [op |-> "balance_history", user |-> user, days |-> days,
                    result |-> calculate_balance_history(ledger, today, user, days)]
    /\ UNCHANGED <<ledger, today, categories, priceVars, tableVars>>

CallComparisonData(user, days) ==
    /\ response = NoResponse
    /\ response' = [op |-> "comparison", user |-> user, days |-> days,
                    result |-> calculate_comparison_data(ledger, today, user, days)]
    /\ UNCHANGED <<ledger, today, categories, priceVars, tableVars>>

Next ==
    \/ \E trans \in HistoryRows(today) : SaveTransaction(trans)
    \/ \E trans \in BagToSet(ledger) : DeleteTransaction(trans)
    \/ \E user \in Users, days \in 0 .. MaxWindow : CallBalanceHistory(user, days)
    \/ Return

Spec == Init /\ [][Next]_vars

NextComparison ==
    \/ \E trans \in ComparisonRows(today) : SaveTransaction(trans)
    \/ \E trans \in BagToSet(ledger) : DeleteTransaction(trans)
    \/ \E user \in Users, days \in {None} \cup {Some(n) : n \in 1 .. MaxWindow} :
           CallComparisonData(user, days)
    \/ Return

SpecComparison == Init /\ [][NextComparison]_vars

\* rows of the Transaction table in the endpoint state machine
EndpointRows(now) ==
    [user : Users,
     transaction_type : {"income"},
     amount : {500},
     transaction_date : {Midnight(now)},
     category : {0, 2}]

\* request.GET: no days parameter, or one of these values
QueryStrings ==
    {<<>>} \cup {[k \in {"days"} |-> v] :
                    v \in {Str30, Str90, Str365, Str7, StrAbc, StrAll, StrMinus1,
                           StrPadded30}}

Requests == [user : Users \cup {Anonymous}, GET : QueryStrings]

GetBalanceHistory(request) ==
    /\ response = NoResponse
    /\ response' = [op |-> "get_balance_history", request |-> request,
                    http |-> get_balance_history(ledger, today, request)]
    /\ UNCHANGED <<ledger, today, categories, priceVars, tableVars>>

GetComparisonData(request) ==
    /\ response = NoResponse
    /\ response' = [op |-> "get_comparison_data", request |-> request,
                    http |-> get_comparison_data(ledger, today, request)]
    /\ UNCHANGED <<ledger, today, categories, priceVars, tableVars>>

NextEndpoint ==
    \/ \E trans \in EndpointRows(today) : SaveTransaction(trans)
    \/ \E trans \in BagToSet(ledger) : DeleteTransaction(trans)
    \/ \E request \in Requests : GetBalanceHistory(request)
    \/ \E request \in Requests : GetComparisonData(request)
    \/ Return

SpecEndpoint == Init /\ [][NextEndpoint]_vars

\* rows of the Transaction table at every time of day of the days around the
\* window of calculate_comparison_data
WindowRows(now) ==
    [user : Users,
     transaction_type : {"expense"},
     amount : {500},
     transaction_date : [date : {now + o : o \in DayOffsets}, time : TimesOfDay],
     category : {2}]

NextWindow ==
    \/ \E trans \in WindowRows(today) : SaveTransaction(trans)
    \/ \E trans \in BagToSet(ledger) : DeleteTransaction(trans)
    \/ \E user \in Users, days \in {None} \cup {Some(n) : n \in 1 .. MaxWindow} :
           CallComparisonData(user, days)
    \/ Return

SpecWindow == Init /\ [][NextWindow]_vars

\* the Category table is empty or holds the categories above
InitStore ==
    /\ ledger = EmptyBag
    /\ today \in TodayChoices
    /\ response = NoResponse
    /\ categories \in {{}, Categories}
    /\ InitPrices
    /\ InitTables

\* rows of the Transaction table of a store with or without categories
StoreRows(now) ==
    [user : Users,
     transaction_type : {"income", "expense"},
     amount : {500},
     transaction_date : {Midnight(now - 2), [date |-> now, time |-> 1]},
     category : {0} \cup {c.id : c \in categories}]

NextStore ==
    \/ \E trans \in StoreRows(today) : SaveTransaction(trans)
    \/ \E trans \in BagToSet(ledger) : DeleteTransaction(trans)
    \/ \E user \in Users, days \in 0 .. MaxWindow : CallBalanceHistory(user, days)
    \/ \E user \in Users, days \in {None} \cup {Some(n) : n \in 1 .. MaxWindow} :
           CallComparisonData(user, days)
    \/ Return

SpecStore == InitStore /\ [][NextStore]_vars

-----------------------------------------------------------------------------
(* calculate_balance_history beside the requests of other workers.  The     *)
(* querysets are lazy: initial_transactions is read from the table when the *)
(* first loop iterates it, period_transactions when the second loop does.   *)
(* No transaction encloses the two reads, so writes committed by other      *)
(* requests between them are seen by the second.  The field snapshots       *)
(* records every content the table had during the call.                     *)

ConcurrentRows(now) ==
    [user : Users,
     transaction_type : {"income"},
     amount : {300},
     transaction_date : {Midnight(now - 2), Midnight(now)},
     category : {0}]

\* end_date = date.today(); start_date = end_date - timedelta(days=days)
BeginBalanceHistory(user, days) ==
    /\ response = NoResponse
    /\ response' = [op |-> "calculate_balance_history", pc |-> "initial",
                    user |-> user, days |-> days,
                    end_date |-> today, start_date |-> today - days,
                    initial_balance |-> 0, writes |-> 0,
                    snapshots |-> {ledger}]
    /\ UNCHANGED <<ledger, today, categories, priceVars, tableVars>>

\* for trans in initial_transactions: ...
ReadInitialTransactions ==
    /\ response.op = "calculate_balance_history"
    /\ response.pc = "initial"
    /\ response' = [response EXCEPT
                        !.pc = "period",
                        !.initial_balance =
                            InitialBalance(ledger, response.user, response.start_date)]
    /\ UNCHANGED <<ledger, today, categories, priceVars, tableVars>>

\* for trans in period_transactions: ... and the loop over the days
ReadPeriodTransactions ==
    /\ response.op = "calculate_balance_history"
    /\ response.pc = "period"
    /\ LET period == PeriodTransactions(ledger, response.user,
                                        response.start_date, response.end_date)
           final == WalkDays(response.start_date, response.end_date,
                             [current_balance |-> response.initial_balance,
                              balance_labels |-> <<>>, balance_data |-> <<>>],
                             DailyChanges(period), DateFormat(response.days))
       IN  response' = [op |-> "balance_history", user |-> response.user,
                        days |-> response.days,
                        result |-> [labels |-> final.balance_labels,
                                    data |-> final.balance_data],
                        snapshots |-> response.snapshots]
    /\ UNCHANGED <<ledger, today, categories, priceVars, tableVars>>

\* a write of another request is committed while the call is running
WriteDuringCall(table) ==
    /\ response.op = "calculate_balance_history"
    /\ response.writes < MaxWrites
    /\ ledger' = table
    /\ response' = [response EXCEPT !.writes = @ + 1,
                                    !.snapshots = @ \cup {table}]
    /\ UNCHANGED <<today, categories, priceVars, tableVars>>

\* transaction_add of another request
OtherRequestAdds(trans) ==
    /\ BagCardinality(ledger) < MaxTx
    /\ WriteDuringCall(ledger (+) SetToBag({trans}))

\* transaction_edit of another request: form.save() rewrites the row
OtherRequestEdits(old, new) ==
    /\ BagIn(old, ledger)
    /\ old # new
    /\ WriteDuringCall((ledger (-) SetToBag({old})) (+) SetToBag({new}))

\* transaction_delete of another request
OtherRequestDeletes(trans) ==
    /\ BagIn(trans, ledger)
    /\ WriteDuringCall(ledger (-) SetToBag({trans}))

NextConcurrent ==
    \/ \E trans \in ConcurrentRows(today) : SaveTransaction(trans)
    \/ \E trans \in BagToSet(ledger) : DeleteTransaction(trans)
    \/ \E user \in Users, days \in 0 .. MaxWindow : BeginBalanceHistory(user, days)
    \/ ReadInitialTransactions
    \/ ReadPeriodTransactions
    \/ \E trans \in ConcurrentRows(today) : OtherRequestAdds(trans)
    \/ \E old \in BagToSet(ledger), new \in ConcurrentRows(today) :
           OtherRequestEdits(old, new)
    \/ \E trans \in BagToSet(ledger) : OtherRequestDeletes(trans)
    \/ Return

SpecConcurrent == Init /\ [][NextConcurrent]_vars

-----------------------------------------------------------------------------
(* The helpers called on a store that returns rows in an order it chooses *)

\* a second expense category named Food
CategoriesSharingName ==
    Categories \cup
        {[id |-> 4, category_name |-> NameFood, category_type |-> "expense"]}

InitOrder ==
    /\ ledger = EmptyBag
    /\ today \in TodayChoices
    /\ response = NoResponse
    /\ categories = CategoriesSharingName
    /\ InitPrices
    /\ InitTables

OrderRows(now) ==
    [user : {"alice"},
     transaction_type : {"income", "expense"},
     amount : HistoryAmounts,
     transaction_date : {Midnight(now - 2), Midnight(now)},
     category : {0, 2, 4}]

CallBalanceHistoryInOrder(user, days, order) ==
    /\ response = NoResponse
    /\ response' = [op |-> "balance_history", user |-> user, days |-> days,
                    result |-> calculate_balance_history_in_order(order, today,
                                                                  user, days)]
    /\ UNCHANGED <<ledger, today, categories, priceVars, tableVars>>

CallComparisonDataInOrder(user, days, expense_by_category, income_by_category) ==
    /\ response = NoResponse
    /\ response' = [op |-> "comparison", user |-> user, days |-> days,
                    result |-> calculate_comparison_data_in_order(
                                   expense_by_category, income_by_category)]
    /\ UNCHANGED <<ledger, today, categories, priceVars, tableVars>>

NextOrder ==
    \/ \E trans \in OrderRows(today) : SaveTransaction(trans)
    \/ \E trans \in BagToSet(ledger) : DeleteTransaction(trans)
    \/ \E user \in Users, days \in 0 .. MaxWindow, order \in RowSequences(ledger) :
           CallBalanceHistoryInOrder(user, days, order)
    \/ \E user \in Users, days \in {None} \cup {Some(n) : n \in 1 .. MaxWindow} :
           \E expense_by_category \in CategorySequences(
                   AnnotatedOfKind(ledger, today, user, days, "expense")),
              income_by_category \in CategorySequences(
                   AnnotatedOfKind(ledger, today, user, days, "income")) :
               CallComparisonDataInOrder(user, days, expense_by_category,
                                         income_by_category)
    \/ Return

SpecOrder == InitOrder /\ [][NextOrder]_vars

-----------------------------------------------------------------------------
(* calculate_balance_history called with windows on both sides of the       *)
(* thresholds of its label format                                           *)

LabelWindows == {0, 30, 31, 90, 91, 365}

NextLabels ==
    \/ \E trans \in EndpointRows(today) : SaveTransaction(trans)
    \/ \E trans \in BagToSet(ledger) : DeleteTransaction(trans)
    \/ \E user \in Users, days \in LabelWindows : CallBalanceHistory(user, days)
    \/ Return

SpecLabels == Init /\ [][NextLabels]_vars

-----------------------------------------------------------------------------
(* The endpoints on a store that is available or not when the helper runs *)

GetBalanceHistoryOn(request, store_up) ==
    /\ response = NoResponse
    /\ response' = [op |-> "get_balance_history", request |-> request,
                    store_up |-> store_up,
                    outcome |-> get_balance_history_on(ledger, today, request,
                                                       store_up)]
    /\ UNCHANGED <<ledger, today, categories, priceVars, tableVars>>

GetComparisonDataOn(request, store_up) ==
    /\ response = NoResponse
    /\ response' = [op |-> "get_comparison_data", request |-> request,
                    store_up |-> store_up,
                    outcome |-> get_comparison_data_on(ledger, today, request,
                                                       store_up)]
    /\ UNCHANGED <<ledger, today, categories, priceVars, tableVars>>

NextFailure ==
    \/ \E trans \in EndpointRows(today) : SaveTransaction(trans)
    \/ \E trans \in BagToSet(ledger) : DeleteTransaction(trans)
    \/ \E request \in Requests, store_up \in BOOLEAN :
           GetBalanceHistoryOn(request, store_up)
    \/ \E request \in Requests, store_up \in BOOLEAN :
           GetComparisonDataOn(request, store_up)
    \/ Return

SpecFailure == Init /\ [][NextFailure]_vars

-----------------------------------------------------------------------------
(* The price-feed lookups, the remote feeds and the clock *)

Ticker(symbol, lastPrice, quoteVolume) ==
    [symbol |-> symbol, lastPrice |-> lastPrice, priceChangePercent |-> 1,
     quoteVolume |-> quoteVolume]

\* what the Binance feed can answer: an error, a body that is no list of
\* tickers, or a list of tickers
BinanceAnswers ==
    {[ok |-> FALSE],
     [ok |-> TRUE, data |-> <<[code |-> 1003]>>],
     [ok |-> TRUE, data |-> <<Ticker(SymbolETHBTC, 5, 800)>>],
     [ok |-> TRUE, data |-> <<Ticker(SymbolETHUSDT, 20, 500),
                              Ticker(SymbolBTCUPUSDT, 7, 700),
                              Ticker(SymbolBTCUSDT, 100, 900)>>],
     [ok |-> TRUE, data |-> <<Ticker(SymbolBTCUSDT, 110, 900)>>]}

\* what the stock feed can answer: an error, a body without a chart, or a
\* chart whose meta holds the prices
StockAnswers ==
    {[ok |-> FALSE]}
    \cup [ok : {TRUE}, has_chart : {FALSE},
          regularMarketPrice : {None}, previousClose : {None}]
    \cup [ok : {TRUE}, has_chart : {TRUE},
          regularMarketPrice : {None, Some(0), Some(150), Some(160)},
          previousClose : {Some(100)}]
    \cup [ok : {TRUE}, has_chart : {TRUE},
          regularMarketPrice : {Some(150)}, previousClose : {None}]

\* what the summary feed can answer: an error, a body without a summary, or
\* a summary with or without a raw price
StockInfoAnswers ==
    {[ok |-> FALSE]}
    \cup [ok : {TRUE}, has_summary : {FALSE}, raw : {None}]
    \cup [ok : {TRUE}, has_summary : {TRUE}, raw : {None, Some(150)}]

CryptoLimits == {0, 1}
StockTickers == {TickerLower, TickerUpper}
\* seconds by which the clock advances in one step
TickSteps == {300}

\* a successful fetch is remembered with its time
Remember(key, lookup) ==
    IF lookup.stored
    THEN (key :> [value |-> lookup.result, at |-> clock]) @@ fetched
    ELSE fetched

CallTopCryptos(limit, answer) ==
    /\ response = NoResponse
    /\ LET lookup == get_top_cryptos(limit, answer)
       IN  /\ response' = [op |-> "get_top_cryptos", limit |-> limit,
                           cache_key |-> TopCryptosKey(limit),
                           answer |-> answer,
                           result |-> lookup.result,
                           contacted |-> lookup.contacted]
           /\ cache' = lookup.cache
           /\ fetched' = Remember(TopCryptosKey(limit), lookup)
    /\ UNCHANGED <<ledger, today, categories, clock, tableVars>>

CallStockPrice(ticker, answer) ==
    /\ response = NoResponse
    /\ LET lookup == get_stock_price(ticker, answer)
       IN  /\ response' = [op |-> "get_stock_price", ticker |-> ticker,
                           cache_key |-> StockPriceKey(ticker),
                           answer |-> answer,
                           result |-> lookup.result,
                           contacted |-> lookup.contacted]
           /\ cache' = lookup.cache
           /\ fetched' = Remember(StockPriceKey(ticker), lookup)
    /\ UNCHANGED <<ledger, today, categories, clock, tableVars>>

CallStockInfo(ticker, answer) ==
    /\ response = NoResponse
    /\ LET lookup == get_stock_info(ticker, answer)
       IN  /\ response' = [op |-> "get_stock_info", ticker |-> ticker,
                           cache_key |-> StockInfoKey(ticker),
                           answer |-> answer,
                           result |-> lookup.result,
                           contacted |-> lookup.contacted]
           /\ cache' = lookup.cache
           /\ fetched' = Remember(StockInfoKey(ticker), lookup)
    /\ UNCHANGED <<ledger, today, categories, clock, tableVars>>

\* time passes
Tick(seconds) ==
    /\ clock + seconds <= MaxTicks * seconds
    /\ clock' = clock + seconds
    /\ UNCHANGED <<ledger, today, response, categories, cache, fetched, tableVars>>

NextPrices ==
    \/ \E limit \in CryptoLimits, answer \in BinanceAnswers :
           CallTopCryptos(limit, answer)
    \/ \E ticker \in StockTickers, answer \in StockAnswers :
           CallStockPrice(ticker, answer)
    \/ \E ticker \in StockTickers, answer \in StockInfoAnswers :
           CallStockInfo(ticker, answer)
    \/ \E seconds \in TickSteps : Tick(seconds)
    \/ Return

SpecPrices == Init /\ [][NextPrices]_vars

\* the limits that get_crypto_data passes on: int() of the query parameter
\* limit, any whole number
RequestedLimits == {-1, 1, 2}

\* get_top_cryptos called with every limit a request can ask for
NextTopCryptos ==
    \/ \E limit \in RequestedLimits, answer \in BinanceAnswers :
           CallTopCryptos(limit, answer)
    \/ \E seconds \in TickSteps : Tick(seconds)
    \/ Return

SpecTopCryptos == Init /\ [][NextTopCryptos]_vars

-----------------------------------------------------------------------------
(* The validation layer: the web TransactionForm (transaction_add,          *)
(* transaction_edit) and the REST TransactionSerializer                     *)
(* (TransactionViewSet).  Submitted data name the owner of the chosen       *)
(* account in the field account.                                            *)

\* data submitted to a form or a serializer
SubmittedData(now) ==
    [account : Users,
     transaction_type : {"income", "transfer"},
     amount : {-500, 0, 500},
     transaction_date : {Midnight(now)},
     category : {0}]

\* TransactionForm.is_valid(): the account is one of the user's accounts, the
\* type is one of the choices, the category is absent or a category; amount is
\* a plain forms.DecimalField and the model field has no validator
TransactionForm_is_valid(user, data) ==
    /\ data.account = user
    /\ data.transaction_type \in TransactionTypes
    /\ data.category \in {0} \cup {c.id : c \in categories}

\* TransactionSerializer.validate_amount
validate_amount(value) == value > 0

\* TransactionSerializer.validate: the kind of the category is the type of an
\* income or expense transaction
validate(data) ==
    (data.category # 0 /\ data.transaction_type \in {"income", "expense"}) =>
        \A c \in categories :
            c.id = data.category => c.category_type = data.transaction_type

\* TransactionSerializer.is_valid(): account is any Account
TransactionSerializer_is_valid(data) ==
    /\ data.account \in Users
    /\ data.transaction_type \in TransactionTypes
    /\ data.category \in {0} \cup {c.id : c \in categories}
    /\ validate_amount(data.amount)
    /\ validate(data)

\* the row that form.save() or serializer.save() stores
RowOf(data) ==
    [user |-> data.account,
     transaction_type |-> data.transaction_type,
     amount |-> data.amount,
     transaction_date |-> data.transaction_date,
     category |-> data.category]

\* the answer to a submission and the table after it
Submit(op, user, data, valid, table) ==
    /\ response = NoResponse
    /\ response' = [op |-> op, user |-> user, data |-> data, valid |-> valid]
    /\ ledger' = IF valid THEN table ELSE ledger
    /\ UNCHANGED <<today, categories, priceVars, tableVars>>

\* transaction_add, POST
WebTransactionAdd(user, data) ==
    /\ BagCardinality(ledger) < MaxTx
    /\ Submit("transaction_add", user, data, TransactionForm_is_valid(user, data),
              ledger (+) SetToBag({RowOf(data)}))

\* transaction_edit, POST: get_object_or_404(Transaction, pk=pk,
\* account__user=request.user)
WebTransactionEdit(user, old, data) ==
    /\ BagIn(old, ledger)
    /\ old.user = user
    /\ Submit("transaction_edit", user, data, TransactionForm_is_valid(user, data),
              (ledger (-) SetToBag({old})) (+) SetToBag({RowOf(data)}))

\* TransactionViewSet.create
ApiTransactionCreate(user, data) ==
    /\ BagCardinality(ledger) < MaxTx
    /\ Submit("api_create", user, data, TransactionSerializer_is_valid(data),
              ledger (+) SetToBag({RowOf(data)}))

\* TransactionViewSet.update: the object is taken from get_queryset()
ApiTransactionUpdate(user, old, data) ==
    /\ BagIn(old, ledger)
    /\ old.user = user
    /\ Submit("api_update", user, data, TransactionSerializer_is_valid(data),
              (ledger (-) SetToBag({old})) (+) SetToBag({RowOf(data)}))

NextValidation ==
    \/ \E user \in Users, data \in SubmittedData(today) : WebTransactionAdd(user, data)
    \/ \E user \in Users, old \in BagToSet(ledger), data \in SubmittedData(today) :
           WebTransactionEdit(user, old, data)
    \/ \E user \in Users, data \in SubmittedData(today) : ApiTransactionCreate(user, data)
    \/ \E user \in Users, old \in BagToSet(ledger), data \in SubmittedData(today) :
           ApiTransactionUpdate(user, old, data)
    \/ \E trans \in BagToSet(ledger) : DeleteTransaction(trans)
    \/ Return

SpecValidation == Init /\ [][NextValidation]_vars

-----------------------------------------------------------------------------
(* The REST API of transactions: TransactionViewSet (finance/api.py) with   *)
(* TransactionSerializer.  A request addresses a stored transaction by its  *)
(* primary key, here by its row; submitted data hold the fields the client  *)
(* sent, and name the owner of the chosen account in the field account.     *)

\* fields a client may send with PUT or PATCH
ApiData(now) ==
    [account : Users,
     transaction_type : {"income", "expense"},
     amount : {500},
     category : {0, 2}]

\* the data of a PATCH: any part of the fields account, transaction_type and
\* category
PatchData(now) ==
    UNION {{[f \in fields |-> d[f]] : d \in ApiData(now)} :
               fields \in SUBSET {"account", "transaction_type", "category"}}

\* the times of day at which a request is served
ApiTimes == {1}

\* serializer.is_valid(): each field sent is validated (account is any stored
\* Account, named here by its owner), the required fields
\* must be present unless the update is partial, and validate() is given the
\* fields that were sent
SerializerIsValid(data, partial) ==
    /\ partial \/ {"account", "transaction_type", "amount"} \subseteq DOMAIN data
    /\ "account" \in DOMAIN data =>
           data.account \in {accounts[pk].user : pk \in DOMAIN accounts}
    /\ "transaction_type" \in DOMAIN data =>
           data.transaction_type \in TransactionTypes
    /\ "category" \in DOMAIN data =>
           data.category \in {0} \cup {c.id : c \in categories}
    /\ "amount" \in DOMAIN data => validate_amount(data.amount)
    /\ {"category", "transaction_type"} \subseteq DOMAIN data => validate(data)

\* serializer.save() on an instance: the fields sent replace the stored ones
UpdatedRow(instance, data) ==
    [user |-> IF "account" \in DOMAIN data THEN data.account ELSE instance.user,
     transaction_type |-> IF "transaction_type" \in DOMAIN data
                          THEN data.transaction_type
                          ELSE instance.transaction_type,
     amount |-> IF "amount" \in DOMAIN data THEN data.amount ELSE instance.amount,
     transaction_date |-> instance.transaction_date,
     category |-> IF "category" \in DOMAIN data THEN data.category
                  ELSE instance.category]

\* serializer.save() of a new transaction; transaction_date defaults to now
CreatedRow(data, now) ==
    [user |-> data.account,
     transaction_type |-> data.transaction_type,
     amount |-> data.amount,
     transaction_date |-> now,
     category |-> IF "category" \in DOMAIN data THEN data.category ELSE 0]

\* variant of get_queryset: the transactions of every user
get_queryset_of_all(user) == ledger

\* TransactionViewSet.get_queryset: account__user=self.request.user
get_queryset(user) == FilterRows(ledger, {t \in DOMAIN ledger : t.user = user})

\* get_object(): the addressed row, when it is in get_queryset()
Found(user, target) == BagIn(target, get_queryset(user))

\* the answer of a request and the table after it
Answer(op, user, request, status, body, table) ==
    /\ response = NoResponse
    /\ response' = [op |-> op, user |-> user, request |-> request,
                    status |-> status, body |-> body]
    /\ ledger' = table
    /\ UNCHANGED <<today, categories, priceVars, tableVars>>

NotFound(op, user, request) == Answer(op, user, request, 404, <<>>, ledger)

\* GET /api/transactions/
ApiList(user) ==
    Answer("list", user, <<>>, 200, get_queryset(user), ledger)

\* GET /api/transactions/{pk}/
ApiRetrieve(user, target) ==
    IF ~Found(user, target) THEN NotFound("retrieve", user, [target |-> target])
    ELSE Answer("retrieve", user, [target |-> target], 200, target, ledger)

\* POST /api/transactions/
ApiCreate(user, data, time) ==
    /\ BagCardinality(ledger) < MaxTx
    /\ LET request == <<>>
           row == CreatedRow(data, [date |-> today, time |-> time])
       IN  IF ~SerializerIsValid(data, FALSE)
           THEN Answer("create", user, request, 400, <<>>, ledger)
           ELSE Answer("create", user, request, 201, row,
                       ledger (+) SetToBag({row}))

\* PUT (partial = FALSE) and PATCH (partial = TRUE) /api/transactions/{pk}/
ApiUpdate(user, target, data, partial) ==
    LET op == IF partial THEN "partial_update" ELSE "update"
        request == [target |-> target]
        row == UpdatedRow(target, data)
    IN  IF ~Found(user, target) THEN NotFound(op, user, request)
        ELSE IF ~SerializerIsValid(data, partial)
        THEN Answer(op, user, request, 400, <<>>, ledger)
        ELSE Answer(op, user, request, 200, row,
                    (ledger (-) SetToBag({target})) (+) SetToBag({row}))

\* DELETE /api/transactions/{pk}/
ApiDestroy(user, target) ==
    IF ~Found(user, target) THEN NotFound("destroy", user, [target |-> target])
    ELSE Answer("destroy", user, [target |-> target], 204, <<>>,
                ledger (-) SetToBag({target}))

\* GET /api/transactions/recent/: the ten latest rows of get_queryset(); the
\* table holds fewer than ten rows, so all of them
ApiRecent(user) ==
    Answer("recent", user, <<>>, 200, get_queryset(user), ledger)

\* GET /api/transactions/statistics/?days=: the rows of get_queryset() from
\* datetime.now() - days on
ApiStatistics(user, days, time) ==
    LET start_date == [date |-> today - days, time |-> time]
        transactions == FilterRows(get_queryset(user),
                            {t \in DOMAIN get_queryset(user) :
                                 DtLessEq(start_date, t.transaction_date)})
        OfType(type) == FilterRows(transactions,
                            {t \in DOMAIN transactions : t.transaction_type = type})
        income == SumAmounts(OfType("income"))
        expense == SumAmounts(OfType("expense"))
    IN  Answer("statistics", user, [days |-> days, time |-> time], 200,
               [period_days |-> days,
                total_income |-> income,
                total_expense |-> expense,
                net_income |-> income - expense,
                transactions_count |-> BagCardinality(transactions)],
               ledger)

\* POST /api/transactions/{pk}/duplicate/: a copy dated now
ApiDuplicate(user, target, time) ==
    LET request == [target |-> target]
        row == [target EXCEPT !.transaction_date = [date |-> today, time |-> time]]
    IN  IF ~Found(user, target) THEN NotFound("duplicate", user, request)
        ELSE /\ BagCardinality(ledger) < MaxTx
             /\ Answer("duplicate", user, request, 201, row,
                       ledger (+) SetToBag({row}))

NextApi ==
    \/ /\ response = NoResponse
       /\ \E user \in Users : ApiList(user)
    \/ /\ response = NoResponse
       /\ \E user \in Users, target \in BagToSet(ledger) : ApiRetrieve(user, target)
    \/ /\ response = NoResponse
       /\ \E user \in Users, data \in ApiData(today), time \in ApiTimes :
              ApiCreate(user, data, time)
    \/ /\ response = NoResponse
       /\ \E user \in Users, target \in BagToSet(ledger), data \in ApiData(today) :
              ApiUpdate(user, target, data, FALSE)
    \/ /\ response = NoResponse
       /\ \E user \in Users, target \in BagToSet(ledger), data \in PatchData(today) :
              ApiUpdate(user, target, data, TRUE)
    \/ /\ response = NoResponse
       /\ \E user \in Users, target \in BagToSet(ledger) : ApiDestroy(user, target)
    \/ /\ response = NoResponse
       /\ \E user \in Users : ApiRecent(user)
    \/ /\ response = NoResponse
       /\ \E user \in Users, days \in 0 .. MaxWindow, time \in ApiTimes :
              ApiStatistics(user, days, time)
    \/ /\ response = NoResponse
       /\ \E user \in Users, target \in BagToSet(ledger), time \in ApiTimes :
              ApiDuplicate(user, target, time)
    \/ Return

SpecApi == Init /\ [][NextApi]_vars

-----------------------------------------------------------------------------
(* The REST API of budgets: BudgetViewSet (finance/api.py) with             *)
(* BudgetSerializer.  The table budgets is a sequence indexed by primary    *)
(* key; a budget holds its owner, its start_date and its optional end_date. *)
(* A date that may be null is None or Some(date).                           *)

MaxBudgets == 2

BudgetDates(now) == {now - 1, now}

\* the fields start_date and end_date of a request; start_date may be left
\* out of a PATCH, end_date (null=True, blank=True) of any request
BudgetData(now) ==
    UNION {[fields -> {Some(d) : d \in BudgetDates(now)} \cup {None}] :
               fields \in SUBSET {"start_date", "end_date"}}

\* BudgetSerializer.validate: both dates are read from the submitted data
BudgetSerializer_validate(data) ==
    LET start_date == IF "start_date" \in DOMAIN data THEN data.start_date ELSE None
        end_date == IF "end_date" \in DOMAIN data THEN data.end_date ELSE None
    IN  ~(start_date # None /\ end_date # None /\ end_date[1] < start_date[1])

\* BudgetSerializer.is_valid(): start_date is required unless the update is
\* partial and is never null
BudgetSerializer_is_valid(data, partial) ==
    /\ partial \/ "start_date" \in DOMAIN data
    /\ "start_date" \in DOMAIN data => data.start_date # None
    /\ BudgetSerializer_validate(data)

\* serializer.save(): the submitted fields replace the stored ones
SavedBudget(instance, data) ==
    [user |-> instance.user,
     start_date |-> IF "start_date" \in DOMAIN data THEN data.start_date[1]
                    ELSE instance.start_date,
     end_date |-> IF "end_date" \in DOMAIN data THEN data.end_date
                  ELSE instance.end_date]

BudgetAnswer(op, user, pk, status, table) ==
    /\ response = NoResponse
    /\ response' = [op |-> op, user |-> user, pk |-> pk, status |-> status]
    /\ budgets' = table
    /\ UNCHANGED <<ledger, today, categories, priceVars, accounts, stocks>>

\* POST /api/budgets/: perform_create saves with user=self.request.user
ApiBudgetCreate(user, data) ==
    /\ Len(budgets) < MaxBudgets
    /\ IF ~BudgetSerializer_is_valid(data, FALSE)
       THEN BudgetAnswer("create", user, 0, 400, budgets)
       ELSE BudgetAnswer("create", user, Len(budgets) + 1, 201,
                Append(budgets,
                       SavedBudget([user |-> user, start_date |-> today,
                                    end_date |-> None], data)))

\* PUT (partial = FALSE) and PATCH (partial = TRUE) /api/budgets/{pk}/: the
\* object is taken from get_queryset(), the budgets of the requester
ApiBudgetUpdate(user, pk, data, partial) ==
    LET op == IF partial THEN "partial_update" ELSE "update"
    IN  IF budgets[pk].user # user THEN BudgetAnswer(op, user, pk, 404, budgets)
        ELSE IF ~BudgetSerializer_is_valid(data, partial)
        THEN BudgetAnswer(op, user, pk, 400, budgets)
        ELSE BudgetAnswer(op, user, pk, 200,
                 [budgets EXCEPT ![pk] = SavedBudget(budgets[pk], data)])

NextBudgetApi ==
    \/ /\ response = NoResponse
       /\ \E user \in Users, data \in BudgetData(today) : ApiBudgetCreate(user, data)
    \/ /\ response = NoResponse
       /\ \E user \in Users, pk \in DOMAIN budgets, data \in BudgetData(today) :
              ApiBudgetUpdate(user, pk, data, FALSE)
    \/ /\ response = NoResponse
       /\ \E user \in Users, pk \in DOMAIN budgets, data \in BudgetData(today) :
              ApiBudgetUpdate(user, pk, data, TRUE)
    \/ Return

SpecBudgetApi == Init /\ [][NextBudgetApi]_vars

-----------------------------------------------------------------------------
(* The web views that edit and delete one object: account_edit,             *)
(* account_delete, transaction_edit, transaction_delete, budget_edit,       *)
(* budget_delete, stock_edit and stock_delete (finance/views.py).  The      *)
(* tables accounts, budgets and stocks map primary keys to rows; each user  *)
(* owns at most one account, so that a transaction's account is told by its *)
(* field user.  A form posts a new value for one field of the object, None  *)
(* when the field is left blank.                                            *)

Methods == {"GET", "POST"}

PrimaryKeys == 1 .. Cardinality(Users)

OwnerOf(pk) == IF pk = 1 THEN "alice" ELSE "bob"

\* the value a form posts for the field it edits
FormValues == {None, Some(100)}

\* form.is_valid(): the edited field is required
FormIsValid(data) == data # None

\* the tables with one object of every kind for every user
InitWeb ==
    /\ today \in TodayChoices
    /\ response = NoResponse
    /\ categories = Categories
    /\ InitPrices
    /\ accounts = [pk \in PrimaryKeys |-> [user |-> OwnerOf(pk), balance |-> 0]]
    /\ ledger = SetToBag({[user |-> user, transaction_type |-> "expense",
                           amount |-> 500, transaction_date |-> Midnight(today),
                           category |-> 0] : user \in Users})
    /\ budgets = [pk \in PrimaryKeys |->
                     [user |-> OwnerOf(pk), start_date |-> today, end_date |-> None]]
    /\ stocks = [pk \in PrimaryKeys |->
                    [user |-> OwnerOf(pk), ticker |-> TickerUpper, quantity |-> 1,
                     purchase_price |-> 150]]

\* a table without the row of one primary key
Without(table, pk) == [k \in DOMAIN table \ {pk} |-> table[k]]

\* variant of get_object_or_404: the owner is not part of the lookup
get_object_or_404_of_any_user(table, pk, user) == pk \in DOMAIN table

\* get_object_or_404(Model, pk=pk, user=request.user): whether the object is
\* found
get_object_or_404(table, pk, user) == pk \in DOMAIN table /\ table[pk].user = user

\* get_object_or_404(Transaction, pk=pk, account__user=request.user)
get_transaction_or_404(target, user) ==
    get_object_or_404([t \in BagToSet(ledger) |-> t], target, user)

\* the response of a view: 404, 302 (redirect after a change) or 200 (a page)
WebResponse(view, user, pk, method, status) ==
    /\ response = NoResponse
    /\ response' = [op |-> view, user |-> user, pk |-> pk, method |-> method,
                    status |-> status]
    /\ UNCHANGED <<today, categories, priceVars>>

\* account_add: the new account belongs to the logged-in user, who has none
account_add(user, method, data) ==
    /\ \A pk \in DOMAIN accounts : accounts[pk].user # user
    /\ IF method = "POST" /\ FormIsValid(data)
       THEN LET pk == CHOOSE k \in PrimaryKeys \ DOMAIN accounts :
                          \A j \in PrimaryKeys \ DOMAIN accounts : k <= j
            IN  /\ WebResponse("account_add", user, pk, method, 302)
                /\ accounts' = [k \in DOMAIN accounts \cup {pk} |->
                                   IF k = pk THEN [user |-> user, balance |-> data[1]]
                                   ELSE accounts[k]]
                /\ UNCHANGED <<ledger, budgets, stocks>>
       ELSE /\ WebResponse("account_add", user, 0, method, 200)
            /\ UNCHANGED <<ledger, tableVars>>

account_edit(user, pk, method, data) ==
    IF ~get_object_or_404(accounts, pk, user)
    THEN /\ WebResponse("account_edit", user, pk, method, 404)
         /\ UNCHANGED <<ledger, tableVars>>
    ELSE IF method = "POST" /\ FormIsValid(data)
    THEN /\ WebResponse("account_edit", user, pk, method, 302)
         /\ accounts' = [accounts EXCEPT ![pk].balance = data[1]]
         /\ UNCHANGED <<ledger, budgets, stocks>>
    ELSE /\ WebResponse("account_edit", user, pk, method, 200)
         /\ UNCHANGED <<ledger, tableVars>>

\* account.delete() removes the transactions of the account as well
\* (on_delete=CASCADE)
account_delete(user, pk, method) ==
    IF ~get_object_or_404(accounts, pk, user)
    THEN /\ WebResponse("account_delete", user, pk, method, 404)
         /\ UNCHANGED <<ledger, tableVars>>
    ELSE IF method = "POST"
    THEN /\ WebResponse("account_delete", user, pk, method, 302)
         /\ accounts' = Without(accounts, pk)
         /\ ledger' = FilterRows(ledger, {t \in DOMAIN ledger :
                                              t.user # accounts[pk].user})
         /\ UNCHANGED <<budgets, stocks>>
    ELSE /\ WebResponse("account_delete", user, pk, method, 200)
         /\ UNCHANGED <<ledger, tableVars>>

\* transaction_add: the form offers the accounts of the logged-in user
transaction_add(user, method, data) ==
    /\ BagCardinality(ledger) < MaxTx
    /\ IF /\ method = "POST" /\ FormIsValid(data)
          /\ \E pk \in DOMAIN accounts : accounts[pk].user = user
       THEN /\ WebResponse("transaction_add", user, 0, method, 302)
            /\ ledger' = ledger (+) SetToBag({[user |-> user,
                              transaction_type |-> "expense", amount |-> data[1],
                              transaction_date |-> Midnight(today), category |-> 0]})
            /\ UNCHANGED tableVars
       ELSE /\ WebResponse("transaction_add", user, 0, method, 200)
            /\ UNCHANGED <<ledger, tableVars>>

transaction_edit(user, target, method, data) ==
    IF ~get_transaction_or_404(target, user)
    THEN /\ WebResponse("transaction_edit", user, target, method, 404)
         /\ UNCHANGED <<ledger, tableVars>>
    ELSE IF method = "POST" /\ FormIsValid(data)
    THEN /\ WebResponse("transaction_edit", user, target, method, 302)
         /\ ledger' = (ledger (-) SetToBag({target}))
                      (+) SetToBag({[target EXCEPT !.amount = data[1]]})
         /\ UNCHANGED tableVars
    ELSE /\ WebResponse("transaction_edit", user, target, method, 200)
         /\ UNCHANGED <<ledger, tableVars>>

\* variant of transaction_delete: the amount is taken off the balance of the
\* account
transaction_delete_adjusting_balance(user, target, method) ==
    IF ~get_transaction_or_404(target, user)
    THEN /\ WebResponse("transaction_delete", user, target, method, 404)
         /\ UNCHANGED <<ledger, tableVars>>
    ELSE IF method = "POST"
    THEN /\ WebResponse("transaction_delete", user, target, method, 302)
         /\ ledger' = ledger (-) SetToBag({target})
         /\ accounts' = [pk \in DOMAIN accounts |->
                            IF accounts[pk].user = target.user
                            THEN [accounts[pk] EXCEPT !.balance = @ - target.amount]
                            ELSE accounts[pk]]
         /\ UNCHANGED <<budgets, stocks>>
    ELSE /\ WebResponse("transaction_delete", user, target, method, 200)
         /\ UNCHANGED <<ledger, tableVars>>

transaction_delete(user, target, method) ==
    IF ~get_transaction_or_404(target, user)
    THEN /\ WebResponse("transaction_delete", user, target, method, 404)
         /\ UNCHANGED <<ledger, tableVars>>
    ELSE IF method = "POST"
    THEN /\ WebResponse("transaction_delete", user, target, method, 302)
         /\ ledger' = ledger (-) SetToBag({target})
         /\ UNCHANGED tableVars
    ELSE /\ WebResponse("transaction_delete", user, target, method, 200)
         /\ UNCHANGED <<ledger, tableVars>>

\* the field that the budget form edits is end_date, posted as today
budget_edit(user, pk, method, data) ==
    IF ~get_object_or_404(budgets, pk, user)
    THEN /\ WebResponse("budget_edit", user, pk, method, 404)
         /\ UNCHANGED <<ledger, tableVars>>
    ELSE IF method = "POST" /\ FormIsValid(data)
    THEN /\ WebResponse("budget_edit", user, pk, method, 302)
         /\ budgets' = [budgets EXCEPT ![pk].end_date = Some(today)]
         /\ UNCHANGED <<ledger, accounts, stocks>>
    ELSE /\ WebResponse("budget_edit", user, pk, method, 200)
         /\ UNCHANGED <<ledger, tableVars>>

budget_delete(user, pk, method) ==
    IF ~get_object_or_404(budgets, pk, user)
    THEN /\ WebResponse("budget_delete", user, pk, method, 404)
         /\ UNCHANGED <<ledger, tableVars>>
    ELSE IF method = "POST"
    THEN /\ WebResponse("budget_delete", user, pk, method, 302)
         /\ budgets' = Without(budgets, pk)
         /\ UNCHANGED <<ledger, accounts, stocks>>
    ELSE /\ WebResponse("budget_delete", user, pk, method, 200)
         /\ UNCHANGED <<ledger, tableVars>>

stock_edit(user, pk, method, data) ==
    IF ~get_object_or_404(stocks, pk, user)
    THEN /\ WebResponse("stock_edit", user, pk, method, 404)
         /\ UNCHANGED <<ledger, tableVars>>
    ELSE IF method = "POST" /\ FormIsValid(data)
    THEN /\ WebResponse("stock_edit", user, pk, method, 302)
         /\ stocks' = [stocks EXCEPT ![pk].quantity = data[1]]
         /\ UNCHANGED <<ledger, accounts, budgets>>
    ELSE /\ WebResponse("stock_edit", user, pk, method, 200)
         /\ UNCHANGED <<ledger, tableVars>>

stock_delete(user, pk, method) ==
    IF ~get_object_or_404(stocks, pk, user)
    THEN /\ WebResponse("stock_delete", user, pk, method, 404)
         /\ UNCHANGED <<ledger, tableVars>>
    ELSE IF method = "POST"
    THEN /\ WebResponse("stock_delete", user, pk, method, 302)
         /\ stocks' = Without(stocks, pk)
         /\ UNCHANGED <<ledger, accounts, budgets>>
    ELSE /\ WebResponse("stock_delete", user, pk, method, 200)
         /\ UNCHANGED <<ledger, tableVars>>

NextWeb ==
    \/ /\ response = NoResponse
       /\ \E user \in Users, pk \in PrimaryKeys, method \in Methods,
             data \in FormValues : account_edit(user, pk, method, data)
    \/ /\ response = NoResponse
       /\ \E user \in Users, pk \in PrimaryKeys, method \in Methods :
              account_delete(user, pk, method)
    \/ /\ response = NoResponse
       /\ \E user \in Users, target \in BagToSet(ledger), method \in Methods,
             data \in FormValues : transaction_edit(user, target, method, data)
    \/ /\ response = NoResponse
       /\ \E user \in Users, target \in BagToSet(ledger), method \in Methods :
              transaction_delete(user, target, method)
    \/ /\ response = NoResponse
       /\ \E user \in Users, pk \in PrimaryKeys, method \in Methods,
             data \in FormValues : budget_edit(user, pk, method, data)
    \/ /\ response = NoResponse
       /\ \E user \in Users, pk \in PrimaryKeys, method \in Methods :
              budget_delete(user, pk, method)
    \/ /\ response = NoResponse
       /\ \E user \in Users, pk \in PrimaryKeys, method \in Methods,
             data \in FormValues : stock_edit(user, pk, method, data)
    \/ /\ response = NoResponse
       /\ \E user \in Users, pk \in PrimaryKeys, method \in Methods :
              stock_delete(user, pk, method)
    \/ Return

SpecWeb == InitWeb /\ [][NextWeb]_vars

\* the data of the REST requests that are sent beside the web requests
BalanceData(now) ==
    {data \in ApiData(now) : data.transaction_type = "expense" /\ data.category = 0}

\* the requests that create, edit and delete accounts and transactions
NextBalance ==
    \/ /\ response = NoResponse
       /\ \E user \in Users, method \in Methods, data \in FormValues :
              account_add(user, method, data)
    \/ /\ response = NoResponse
       /\ \E user \in Users, pk \in PrimaryKeys, method \in Methods,
             data \in FormValues : account_edit(user, pk, method, data)
    \/ /\ response = NoResponse
       /\ \E user \in Users, pk \in PrimaryKeys, method \in Methods :
              account_delete(user, pk, method)
    \/ /\ response = NoResponse
       /\ \E user \in Users, method \in Methods, data \in FormValues :
              transaction_add(user, method, data)
    \/ /\ response = NoResponse
       /\ \E user \in Users, target \in BagToSet(ledger), method \in Methods,
             data \in FormValues : transaction_edit(user, target, method, data)
    \/ /\ response = NoResponse
       /\ \E user \in Users, target \in BagToSet(ledger), method \in Methods :
              transaction_delete(user, target, method)
    \/ /\ response = NoResponse
       /\ \E user \in Users, data \in BalanceData(today), time \in ApiTimes :
              ApiCreate(user, data, time)
    \/ /\ response = NoResponse
       /\ \E user \in Users, target \in BagToSet(ledger),
             data \in BalanceData(today), partial \in BOOLEAN :
              ApiUpdate(user, target, data, partial)
    \/ /\ response = NoResponse
       /\ \E user \in Users, target \in BagToSet(ledger) : ApiDestroy(user, target)
    \/ /\ response = NoResponse
       /\ \E user \in Users, target \in BagToSet(ledger), time \in ApiTimes :
              ApiDuplicate(user, target, time)
    \/ Return

SpecBalance == Init /\ [][NextBalance]_vars

-----------------------------------------------------------------------------
(* The investments view (finance/views.py) with StockService.calculate_profit *)
(* and the stock_add view that fills the portfolio.  Amounts are whole       *)
(* numbers; the stocks of the model share one ticker, hence one cache key.   *)
(* total_profit_percent, a quotient shown beside the totals, is left out.    *)

MaxStocks == 2

\* what a StockForm posts: company_name may be left blank
StockData ==
    [ticker : StockTickers, company_name : {None, Some("Apple")},
     quantity : {1, 2}, purchase_price : {100}]

\* the answers of the stock feed during one request of the investments view
PortfolioAnswers ==
    {answer \in StockAnswers :
         \/ ~answer.ok
         \/ /\ answer.has_chart
            /\ answer.previousClose # None
            /\ answer.regularMarketPrice \in {Some(150), Some(160)}}

\* StockForm.clean_ticker
clean_ticker(ticker) == Upper(ticker)

\* StockService.calculate_profit
calculate_profit(purchase_price, current_price, quantity) ==
    LET total_investment == purchase_price * quantity
        current_value == current_price * quantity
    IN  [total_investment |-> total_investment,
         current_value |-> current_value,
         profit |-> current_value - total_investment]

\* the lookups of get_stock_price for the stocks of a request, in turn: once
\* a lookup has stored a price, the later ones read it from the cache.  known
\* is None or Some(the lookup that stored).
RECURSIVE PortfolioLookups(_, _, _)
PortfolioLookups(user_stocks, answers, known) ==
    IF user_stocks = <<>> THEN <<>>
    ELSE LET lookup ==
                 IF known # None
                 THEN [result |-> known[1].result, contacted |-> FALSE,
                       cache |-> known[1].cache, stored |-> FALSE]
                 ELSE get_stock_price(Head(user_stocks).ticker, Head(answers))
             next_known == IF known = None /\ lookup.stored THEN Some(lookup)
                           ELSE known
         IN  <<lookup>> \o PortfolioLookups(Tail(user_stocks), Tail(answers),
                                            next_known)

\* the lookup of a request that stored a price, if any
StoringLookup(lookups) ==
    IF \E i \in DOMAIN lookups : lookups[i].stored
    THEN Some(lookups[CHOOSE i \in DOMAIN lookups : lookups[i].stored])
    ELSE None

\* profit_data of one stock: calculate_profit when the price was obtained,
\* else the investment alone with every other entry None
ProfitData(stock, lookup) ==
    IF lookup.result # None
    THEN LET profit_data == calculate_profit(stock.purchase_price,
                                             lookup.result[1].price, stock.quantity)
         IN  [total_investment |-> profit_data.total_investment,
              current_value |-> Some(profit_data.current_value),
              profit |-> Some(profit_data.profit)]
    ELSE [total_investment |-> stock.quantity * stock.purchase_price,
          current_value |-> None,
          profit |-> None]

\* the loop of the view over stocks_data: total_investment grows by the
\* investment of every stock, total_current_value by the current value of the
\* stocks that have a price
RECURSIVE AddToTotals(_, _)
AddToTotals(stocks_data, totals) ==
    IF stocks_data = <<>> THEN totals
    ELSE LET profit_data == Head(stocks_data)
         IN  AddToTotals(Tail(stocks_data),
                 IF profit_data.current_value # None
                 THEN [total_investment |-> totals.total_investment
                                            + profit_data.total_investment,
                       total_current_value |-> totals.total_current_value
                                               + profit_data.current_value[1]]
                 ELSE [total_investment |-> totals.total_investment
                                            + profit_data.total_investment,
                       total_current_value |-> totals.total_current_value])

\* the context of the investments view for the lookups of its stocks
investments(user_stocks, lookups) ==
    LET stocks_data == [i \in DOMAIN user_stocks |->
                            ProfitData(user_stocks[i], lookups[i])]
        totals == AddToTotals(stocks_data, [total_investment |-> 0,
                                            total_current_value |-> 0])
    IN  [stocks_data |-> stocks_data,
         stocks_count |-> Len(user_stocks),
         total_investment |-> totals.total_investment,
         total_current_value |-> totals.total_current_value,
         total_profit |-> totals.total_current_value - totals.total_investment]

\* the cache and the record of fetches after the lookups of a request
AfterLookups(key, lookups) ==
    LET storing == StoringLookup(lookups)
    IN  /\ cache' = IF storing # None THEN storing[1].cache ELSE cache
        /\ fetched' = IF storing # None THEN Remember(key, storing[1]) ELSE fetched

\* stock_add, POST of a valid form: the company name left blank is looked up
\* with get_stock_price
stock_add(user, data, answer) ==
    /\ response = NoResponse
    /\ Len(stocks) < MaxStocks
    /\ LET ticker == clean_ticker(data.ticker)
           lookups == IF data.company_name = None
                      THEN <<get_stock_price(ticker, answer)>> ELSE <<>>
       IN  /\ stocks' = Append(stocks, [user |-> user, ticker |-> ticker,
                                        quantity |-> data.quantity,
                                        purchase_price |-> data.purchase_price])
           /\ response' = [op |-> "stock_add", user |-> user, status |-> 302]
           /\ AfterLookups(StockPriceKey(ticker), lookups)
    /\ UNCHANGED <<ledger, today, categories, clock, accounts, budgets>>

\* GET of the investments page by a logged-in user
CallInvestments(user, answers) ==
    /\ response = NoResponse
    /\ LET user_stocks == SelectSeq(stocks, LAMBDA stock : stock.user = user)
           lookups == PortfolioLookups(user_stocks, answers, None)
       IN  /\ Len(answers) = Len(user_stocks)
           /\ response' = [op |-> "investments", user |-> user,
                           context |-> investments(user_stocks, lookups)]
           /\ AfterLookups(StockPriceKey(TickerUpper), lookups)
    /\ UNCHANGED <<ledger, today, categories, clock, tableVars>>

NextInvestments ==
    \/ \E user \in Users, data \in StockData, answer \in PortfolioAnswers :
           stock_add(user, data, answer)
    \/ \E user \in Users, n \in 0 .. MaxStocks :
           \E answers \in [1 .. n -> PortfolioAnswers] : CallInvestments(user, answers)
    \/ \E seconds \in TickSteps : Tick(seconds)
    \/ Return

SpecInvestments == Init /\ [][NextInvestments]_vars

-----------------------------------------------------------------------------
(* Properties of calculate_balance_history (checked under Spec) *)

\* signed contribution of a transaction: +amount for income, -amount for
\* expense, 0 for transfer
Contribution(t) ==
    CASE t.transaction_type = "income" -> t.amount
      [] t.transaction_type = "expense" -> 0 - t.amount
      [] OTHER -> 0

\* sum of the contributions of the rows in S, each with its multiplicity
RECURSIVE SumContributions(_)
SumContributions(S) ==
    IF S = {} THEN 0
    ELSE LET t == CHOOSE x \in S : TRUE
         IN  CopiesIn(t, ledger) * Contribution(t) + SumContributions(S \ {t})

\* signed sum of the user's transactions whose calendar day is on or before d
SignedSumThrough(user, d) ==
    SumContributions({t \in BagToSet(ledger) :
                          t.user = user /\ t.transaction_date.date <= d})

\* the ledger without its transfer rows
WithoutTransfers ==
    [t \in {x \in DOMAIN ledger : x.transaction_type # "transfer"} |-> ledger[t]]

\* C1: for every day d of the window, the entry of data for d is the signed
\* sum of all of the user's transactions whose calendar day is on or before d,
\* whatever their time of day.
C1_BalanceIsSignedSumThroughDay ==
    response.op = "balance_history" =>
        LET n == response.days
            data == response.result.data
        IN  /\ Len(data) = n + 1
            /\ \A i \in 1 .. Len(data) :
                   data[i] = SignedSumThrough(response.user, today - n + i - 1)

\* C2: labels and data have equal length N + 1, with one entry per
\* consecutive calendar day from today - N to today, in ascending order.
C2_OneEntryPerDay ==
    response.op = "balance_history" =>
        LET n == response.days
            r == response.result
        IN  /\ Len(r.labels) = n + 1
            /\ Len(r.data) = n + 1
            /\ \A i \in 1 .. Len(r.labels) :
                   r.labels[i] \in {Strftime(today - n + i - 1, "%d.%m"),
                                    Strftime(today - n + i - 1, "%d.%m.%y")}

C2_Witness ==
    /\ response.op = "balance_history"
    /\ response.days >= 1
    /\ Len(response.result.labels) = response.days + 1
    /\ response.result.labels[1] # response.result.labels[2]
    /\ ledger # EmptyBag

\* C3: for window_days = 0 there is exactly one label/value pair: the label
\* is today's date and the value is the cumulative signed balance of all the
\* user's transactions up to and including those that occurred today.
C3_ZeroWindowIsBalanceThroughToday ==
    (response.op = "balance_history" /\ response.days = 0) =>
        /\ response.result.labels = <<Strftime(today, "%d.%m")>>
        /\ response.result.data = <<SignedSumThrough(response.user, today)>>

\* sum of the daily deltas of the days lo .. hi
RECURSIVE SumDeltas(_, _, _)
SumDeltas(changes, lo, hi) ==
    IF lo > hi THEN 0
    ELSE DictGet(changes, lo, 0) + SumDeltas(changes, lo + 1, hi)

\* C4: the last entry of data is initial_balance plus the sum of all daily
\* deltas of the window, entry 0 is initial_balance plus the delta of
\* start_date, and every later entry is the entry before plus its day's delta.
C4_RunningTotal ==
    response.op = "balance_history" =>
        LET n == response.days
            start_date == today - n
            data == response.result.data
            initial_balance == InitialBalance(ledger, response.user, start_date)
            changes == DailyChanges(
                           PeriodTransactions(ledger, response.user, start_date, today))
        IN  /\ Len(data) = n + 1
            /\ data[1] = initial_balance + DictGet(changes, start_date, 0)
            /\ \A i \in 2 .. Len(data) :
                   data[i] = data[i - 1] + DictGet(changes, start_date + i - 1, 0)
            /\ data[Len(data)] = initial_balance + SumDeltas(changes, start_date, today)

C4_Witness ==
    /\ response.op = "balance_history"
    /\ response.days >= 1
    /\ InitialBalance(ledger, response.user, today - response.days) # 0
    /\ response.result.data[2] # response.result.data[1]

\* C5: transfers contribute nothing to the balance history: with any set of
\* transfer rows added or removed, before or inside the window, data is the
\* same as for the ledger without transfers.
C5_TransfersIgnored ==
    response.op = "balance_history" =>
        response.result.data =
            calculate_balance_history(WithoutTransfers, today, response.user,
                                      response.days).data

C5_Witness ==
    /\ response.op = "balance_history"
    /\ response.days >= 1
    /\ \E t \in BagToSet(ledger) :
           /\ t.transaction_type = "transfer" /\ t.user = response.user
           /\ t.transaction_date = Midnight(today)
    /\ \E t \in BagToSet(ledger) :
           /\ t.transaction_type # "transfer" /\ t.user = response.user
           /\ t.transaction_date.date < today - response.days

-----------------------------------------------------------------------------
(* Properties of calculate_comparison_data (checked under SpecComparison) *)

\* C6: a transfer contributes nothing to expenses or incomes, also when it
\* carries a category.
C6_TransfersNotAggregated ==
    response.op = "comparison" =>
        response.result =
            calculate_comparison_data(WithoutTransfers, today, response.user,
                                      response.days)

\* the user's rows of a category that pass the date filter
MatchingRows(cat, user, days) ==
    {t \in BagToSet(ledger) :
         t.category = cat.id /\ t.user = user /\ DateFilter(days, today, t)}

RECURSIVE SumOfAmounts(_)
SumOfAmounts(S) ==
    IF S = {} THEN 0
    ELSE LET t == CHOOSE x \in S : TRUE
         IN  CopiesIn(t, ledger) * t.amount + SumOfAmounts(S \ {t})

TotalOf(cat, user, days) == SumOfAmounts(MatchingRows(cat, user, days))

\* the totals that categories of one kind and one name contribute a row for
RowTotals(name, kind, user, days) ==
    {TotalOf(c, user, days) :
         c \in {x \in Categories : /\ x.category_name = name
                                   /\ x.category_type = kind
                                   /\ MatchingRows(x, user, days) # {}
                                   /\ TotalOf(x, user, days) > 0}}

C10_OnlyNonzeroCategories ==
    response.op = "comparison" =>
        LET r == response.result
            labelled == {r.labels[i] : i \in 1 .. Len(r.labels)}
        IN  /\ \A i \in 1 .. Len(r.labels) :
                   /\ i \in DOMAIN r.expenses /\ i \in DOMAIN r.incomes
                   /\ r.expenses[i] # 0 \/ r.incomes[i] # 0
            /\ \A c \in Categories :
                   (\A x \in Categories :
                        x.category_name = c.category_name =>
                            TotalOf(x, response.user, response.days) = 0)
                       => c.category_name \notin labelled

C10_Witness ==
    /\ response.op = "comparison"
    /\ \E c \in Categories :
           /\ MatchingRows(c, response.user, response.days) # {}
           /\ TotalOf(c, response.user, response.days) = 0
    /\ response.result.labels = <<>>

-----------------------------------------------------------------------------
(* Properties of the endpoints (checked under SpecEndpoint) *)

\* C7: the balance-history endpoint never answers with an error because of
\* the days parameter: 30, 90 and 365 are used as given and every other
\* value, also a non-numeric one, is clamped to a 30-day window.
C7_BalanceEndpointClampsEveryValue ==
    (response.op = "get_balance_history" /\ response.request.user # Anonymous) =>
        LET query == response.request.GET
            given == IF "days" \in DOMAIN query THEN query["days"] ELSE Str30
            window == IF given = Str90 THEN 90
                      ELSE IF given = Str365 THEN 365 ELSE 30
        IN  response.http =
                JsonSuccess(calculate_balance_history(ledger, today,
                                                      response.request.user, window))

\* C8: the comparison-data endpoint resolves days as a total function: "all"
\* selects all time, 30, 90 and 365 that trailing window, and every other
\* value, numeric or not, a 30-day window with a success response.
C8_ComparisonEndpointClampsEveryValue ==
    (response.op = "get_comparison_data" /\ response.request.user # Anonymous) =>
        LET query == response.request.GET
            given == IF "days" \in DOMAIN query THEN query["days"] ELSE Str30
            window == IF given = StrAll THEN None
                      ELSE IF given = Str90 THEN Some(90)
                      ELSE IF given = Str365 THEN Some(365) ELSE Some(30)
        IN  response.http =
                JsonSuccess(calculate_comparison_data(ledger, today,
                                                      response.request.user, window))

-----------------------------------------------------------------------------
(* Properties of the labels of calculate_comparison_data                    *)
(* (checked under SpecComparison)                                           *)

\* C11: labels are the names of the categories with a nonzero expense total
\* or a nonzero income total, in strictly ascending order, none repeated.
C11_LabelsAreSortedUnion ==
    response.op = "comparison" =>
        LET r == response.result
            nonzero == {c.category_name :
                            c \in {x \in categories :
                                      TotalOf(x, response.user, response.days) # 0}}
        IN  /\ {r.labels[i] : i \in 1 .. Len(r.labels)} = nonzero
            /\ \A i \in 1 .. Len(r.labels) - 1 : StrLess(r.labels[i], r.labels[i + 1])

-----------------------------------------------------------------------------
(* The window of calculate_comparison_data (checked under SpecWindow) *)

\* the user's rows of a category whose calendar day lies in
\* [today - N, today]; every row of the category when there is no window
RowsOfWindowDays(cat, user, days) ==
    {t \in BagToSet(ledger) :
         /\ t.category = cat.id
         /\ t.user = user
         /\ days # None =>
                /\ today - days[1] <= t.transaction_date.date
                /\ t.transaction_date.date <= today}

\* the entry of a category name in a series of the result, 0 when the name
\* is not a label
EntryOf(result, series, name) ==
    IF \E i \in 1 .. Len(result.labels) : result.labels[i] = name
    THEN series[CHOOSE i \in 1 .. Len(result.labels) : result.labels[i] = name]
    ELSE 0

\* C12: with a window of N days the total of a category counts exactly the
\* user's transactions whose calendar day lies in [today - N, today], at any
\* time of day; without a window it counts all of them.
C12_WindowCountsCalendarDays ==
    response.op = "comparison" =>
        \A c \in categories :
            LET series == IF c.category_type = "expense"
                          THEN response.result.expenses
                          ELSE response.result.incomes
            IN  EntryOf(response.result, series, c.category_name) =
                    SumOfAmounts(RowsOfWindowDays(c, response.user, response.days))

-----------------------------------------------------------------------------
(* Empty inputs (checked under SpecStore) *)

\* C13: for a user without transactions calculate_balance_history returns
\* N + 1 labels and N + 1 balances, all 0; when there is no category, or no
\* transaction of the user in a category within the window,
\* calculate_comparison_data returns three empty sequences.
C13_EmptyInputs ==
    /\ (/\ response.op = "balance_history"
        /\ \A t \in BagToSet(ledger) : t.user # response.user)
           => /\ Len(response.result.labels) = response.days + 1
              /\ Len(response.result.data) = response.days + 1
              /\ \A i \in 1 .. response.days + 1 : response.result.data[i] = 0
    /\ (/\ response.op = "comparison"
        /\ \A c \in categories :
               RowsOfWindowDays(c, response.user, response.days) = {})
           => response.result = [labels |-> <<>>, expenses |-> <<>>, incomes |-> <<>>]

\* alice has no transaction while bob has one before the window, and alice's
\* balance history is answered
C13_Witness ==
    /\ response.op = "balance_history"
    /\ response.user = "alice"
    /\ response.days = MaxWindow
    /\ BagCardinality(ledger) > 0
    /\ \A t \in BagToSet(ledger) :
           t.user = "bob" /\ t.transaction_date.date < today - MaxWindow
    /\ Len(response.result.data) = MaxWindow + 1

-----------------------------------------------------------------------------
(* Isolation between users (checked under SpecEndpoint) *)

\* the rows of the Transaction table whose account is owned by the user
OwnRows(user) == FilterRows(ledger, {t \in DOMAIN ledger : t.user = user})

\* C14: the answer of either endpoint to a caller is the answer it gives on
\* the caller's own transactions alone: stores that differ only in the
\* transactions of other users give the caller identical responses.
C14_OnlyCallersTransactions ==
    /\ response.op = "get_balance_history" =>
           response.http = get_balance_history(OwnRows(response.request.user),
                                               today, response.request)
    /\ response.op = "get_comparison_data" =>
           response.http = get_comparison_data(OwnRows(response.request.user),
                                               today, response.request)

\* alice is answered with her balance history while bob has transactions too
C14_Witness ==
    /\ response.op = "get_balance_history"
    /\ response.request.user = "alice"
    /\ response.http.status = 200
    /\ \E t \in BagToSet(ledger) : t.user = "alice"
    /\ \E t \in BagToSet(ledger) : t.user = "bob"

-----------------------------------------------------------------------------
(* Snapshot consistency (checked under SpecConcurrent) *)

\* C15: a balance history computed while other requests write the user's
\* transactions is the balance history of one content that the Transaction
\* table had during the call.
C15_SingleSnapshot ==
    response.op = "balance_history" =>
        \E table \in response.snapshots :
            response.result =
                calculate_balance_history(table, today, response.user,
                                          response.days)

-----------------------------------------------------------------------------
(* Amounts of stored transactions (checked under SpecValidation) *)

\* C16: every income or expense transaction stored after a create or an edit
\* through the web form or the REST serializer has an amount above zero.
C16_StoredAmountsPositive ==
    \A t \in BagToSet(ledger) :
        t.transaction_type \in {"income", "expense"} => t.amount > 0

-----------------------------------------------------------------------------
(* Independence of the store's row order (checked under SpecOrder) *)

\* C17: on the same transactions, categories and today, the result of
\* calculate_balance_history and of calculate_comparison_data is the same
\* in whatever order the store returns the rows: it is the one value
\* determined by the contents of the tables.
C17_OrderIndependent ==
    /\ response.op = "balance_history" =>
           response.result =
               calculate_balance_history(ledger, today, response.user, response.days)
    /\ response.op = "comparison" =>
           response.result =
               calculate_comparison_data(ledger, today, response.user, response.days)

\* two different transactions of the user on one day of the window, which the
\* store can return in either order
C17_Witness ==
    /\ response.op = "balance_history"
    /\ \E t, u \in BagToSet(ledger) :
           /\ t # u
           /\ t.user = response.user /\ u.user = response.user
           /\ t.transaction_date = Midnight(today)
           /\ u.transaction_date = Midnight(today)
    /\ response.result.data[Len(response.result.data)] # 0

-----------------------------------------------------------------------------
(* Label format (checked under SpecLabels) *)

\* the label of a day: day.month, followed by the two-digit year when the
\* year is shown
LabelOf(ord, with_year) ==
    LET d == DateOf(ord)
        day_month == TwoDigits(d.day) \o "." \o TwoDigits(d.month)
    IN  IF with_year THEN day_month \o "." \o TwoDigits(d.year % 100)
        ELSE day_month

\* C18: every label of a call is day.month when window_days <= 90 and
\* day.month.two-digit-year when window_days > 90.
C18_LabelFormat ==
    response.op = "balance_history" =>
        \A i \in 1 .. Len(response.result.labels) :
            response.result.labels[i] =
                LabelOf(today - response.days + i - 1, response.days > 90)

\* a window of 91 days is answered with labels that show the year
C18_Witness ==
    /\ response.op = "balance_history"
    /\ response.days = 91
    /\ Len(response.result.labels) = 92
    /\ response.result.labels[92] = "01.03.24"

-----------------------------------------------------------------------------
(* Error handling of the endpoints (checked under SpecFailure) *)

\* an exception is raised inside the try block of the view: int() rejects
\* the days parameter, or the store is unavailable when the helper runs
ExceptionRaised ==
    LET GET == response.request.GET
        given == "days" \in DOMAIN GET
    IN  \/ /\ given
           /\ ~(response.op = "get_comparison_data" /\ GET["days"] = StrAll)
           /\ ~ParseInt(GET["days"]).ok
        \/ ~response.store_up

-----------------------------------------------------------------------------
(* Caching of the price feeds (checked under SpecPrices) *)

\* the cache timeout of the lookup that a response answers
TimeoutOf(op) == IF op = "get_top_cryptos" THEN 300 ELSE 600

\* C20: a call of get_top_cryptos or get_stock_price made before the cache
\* timeout has passed since a successful fetch for the same limit, or for the
\* same ticker in any letter case, returns the fetched result and does not
\* contact the remote feed.
C20_ReadThroughCache ==
    [][(/\ response = NoResponse
        /\ response'.op \in {"get_top_cryptos", "get_stock_price"}
        /\ response'.cache_key \in DOMAIN fetched
        /\ clock < fetched[response'.cache_key].at + TimeoutOf(response'.op))
           => /\ ~response'.contacted
              /\ response'.result = fetched[response'.cache_key].value]_vars

-----------------------------------------------------------------------------
(* Properties of the REST API of transactions (checked under SpecApi) *)

\* the rows of a bag that the user does not own
RowsOfOthers(B, user) == FilterRows(B, {t \in DOMAIN B : t.user # user})

\* the rows stored fewer times in the second bag than in the first
Decreased(before, after) ==
    {t \in BagToSet(before) : CopiesIn(t, after) < CopiesIn(t, before)}

\* the rows stored more times in the second bag than in the first
Increased(before, after) ==
    {t \in BagToSet(after) : CopiesIn(t, after) > CopiesIn(t, before)}

\* the statistics of one user's rows from start_date on
StatisticsOfOwn(user, days, time) ==
    LET own == {t \in BagToSet(ledger) :
                    /\ t.user = user
                    /\ DtLessEq([date |-> today - days, time |-> time],
                                t.transaction_date)}
        Total(type) == SumOfAmounts({t \in own : t.transaction_type = type})
    IN  [total_income |-> Total("income"),
         total_expense |-> Total("expense"),
         transactions_count |-> Cardinality({<<t, i>> \in own \X (1 .. MaxTx + 1) :
                                                   i <= CopiesIn(t, ledger)})]

\* C21: every request on /api/transactions other than create reads, returns
\* and modifies only transactions of the requester's accounts: a request that
\* addresses another user's transaction is answered 404 and changes nothing,
\* the rows listed or retrieved are the requester's, the statistics are those
\* of the requester's rows, and only rows of the requester are removed,
\* replaced or copied.
C21_OwnTransactionsOnly ==
    [][(response = NoResponse /\ response' # NoResponse /\ response'.op # "create") =>
          LET r == response'
              addressed == r.op \in {"retrieve", "update", "partial_update",
                                     "destroy", "duplicate"}
          IN  /\ (addressed /\ r.request.target.user # r.user) =>
                     r.status = 404 /\ ledger' = ledger
              /\ r.op \in {"list", "recent"} =>
                     /\ \A t \in BagToSet(r.body) : t.user = r.user
                     /\ \A t \in BagToSet(ledger) :
                            t.user = r.user => CopiesIn(t, r.body) = CopiesIn(t, ledger)
              /\ (r.op = "retrieve" /\ r.status = 200) => r.body.user = r.user
              /\ r.op = "statistics" =>
                     LET own == StatisticsOfOwn(r.user, r.request.days, r.request.time)
                     IN  /\ r.body.total_income = own.total_income
                         /\ r.body.total_expense = own.total_expense
                         /\ r.body.transactions_count = own.transactions_count
              /\ \A t \in Decreased(ledger, ledger') : t.user = r.user
              /\ r.op = "duplicate" =>
                     \A t \in Increased(ledger, ledger') : t.user = r.user]_vars

\* another user's transaction was addressed for deletion while a transaction
\* of the requester is stored too
C21_Witness ==
    /\ response # NoResponse
    /\ response.op = "destroy"
    /\ response.request.target.user # response.user
    /\ \E t \in BagToSet(ledger) : t.user = response.user

\* the kind of a stored category
KindOf(id) == (CHOOSE c \in categories : c.id = id).category_type

\* C22: every stored transaction that has a category and is an income or an
\* expense has a category of its own kind, whatever REST requests created and
\* updated the rows.
C22_CategoryKindMatches ==
    \A t \in BagToSet(ledger) :
        (t.category # 0 /\ t.transaction_type \in {"income", "expense"}) =>
            KindOf(t.category) = t.transaction_type

-----------------------------------------------------------------------------
(* Properties of the REST API of budgets (checked under SpecBudgetApi) *)

\* C23: every stored budget that has an end_date has it on or after its
\* start_date, whatever REST requests created and updated the budgets.
C23_EndNotBeforeStart ==
    \A pk \in DOMAIN budgets :
        budgets[pk].end_date # None =>
            budgets[pk].end_date[1] >= budgets[pk].start_date

-----------------------------------------------------------------------------
(* Properties of the price lookups on a failing feed (checked under         *)
(* SpecPrices)                                                              *)

\* the request to the feed fails, or the body it gives cannot be processed
FeedFailed(op, answer) ==
    \/ ~answer.ok
    \/ op = "get_top_cryptos" /\ \E i \in DOMAIN answer.data :
                                     "symbol" \notin DOMAIN answer.data[i]
    \/ op = "get_stock_price" /\ (~answer.has_chart \/ ~Truthy(answer.regularMarketPrice))
    \/ op = "get_stock_info" /\ ~answer.has_summary

\* the value a lookup returns when it has nothing to give
EmptyResult(op) == IF op = "get_top_cryptos" THEN <<>> ELSE None

\* the lookup r made with the cache and the clock as they are would contact
\* the feed, whatever the feed answers
WouldContact(r) ==
    CASE r.op = "get_top_cryptos" ->
             \A answer \in BinanceAnswers : get_top_cryptos(r.limit, answer).contacted
      [] r.op = "get_stock_price" ->
             \A answer \in StockAnswers : get_stock_price(r.ticker, answer).contacted
      [] r.op = "get_stock_info" ->
             \A answer \in StockInfoAnswers : get_stock_info(r.ticker, answer).contacted

-----------------------------------------------------------------------------
(* Properties of the accounts that REST requests on transactions reach      *)
(* (checked under SpecApi)                                                  *)

\* C25: a request on /api/transactions leaves the transactions of the
\* accounts of every user other than the requester as they were.
C25_OtherUsersRowsUnchanged ==
    [][(response = NoResponse /\ response' # NoResponse) =>
          RowsOfOthers(ledger', response'.user) = RowsOfOthers(ledger, response'.user)]_vars

-----------------------------------------------------------------------------
(* Properties of the web edit and delete views (checked under SpecWeb) *)

\* the table a view works on, as a function from what a request addresses
TableOf(op) ==
    CASE op \in {"account_edit", "account_delete"} -> accounts
      [] op \in {"budget_edit", "budget_delete"} -> budgets
      [] op \in {"stock_edit", "stock_delete"} -> stocks
      [] op \in {"transaction_edit", "transaction_delete"} ->
             [t \in BagToSet(ledger) |-> t]

DeleteViews ==
    {"account_delete", "transaction_delete", "budget_delete", "stock_delete"}

\* the request r addresses a stored object
Stored(r) == r.pk \in DOMAIN TableOf(r.op)

\* C26: a web edit or delete view asked for a stored object of another user
\* answers 404 and leaves every table as it was; a delete view asked for an
\* object of the logged-in user removes it when the method is POST and leaves
\* every table as it was when the method is GET.
C26_OwnerOnlyAndDeleteOnPost ==
    [][(response = NoResponse /\ response' # NoResponse /\ Stored(response')) =>
          LET r == response'
              owned == TableOf(r.op)[r.pk].user = r.user
          IN  /\ ~owned => /\ r.status = 404
                           /\ UNCHANGED <<ledger, accounts, budgets, stocks>>
              /\ (owned /\ r.op \in DeleteViews /\ r.method = "GET") =>
                     /\ r.status = 200
                     /\ UNCHANGED <<ledger, accounts, budgets, stocks>>
              /\ (owned /\ r.op \in DeleteViews /\ r.method = "POST") =>
                     /\ r.status = 302
                     /\ ~Stored(response)']_vars

\* another user's account was addressed by a delete view after the requester
\* had deleted a stock of their own
C26_Witness ==
    /\ response # NoResponse
    /\ response.op = "account_delete"
    /\ response.method = "POST"
    /\ response.status = 404
    /\ response.pk \in DOMAIN accounts
    /\ accounts[response.pk].user # response.user
    /\ \A pk \in DOMAIN stocks : stocks[pk].user # response.user

-----------------------------------------------------------------------------
(* Properties of the stored balances (checked under SpecBalance) *)

TransactionOps ==
    {"transaction_add", "transaction_edit", "transaction_delete",
     "create", "update", "partial_update", "destroy", "duplicate"}

\* an account is new or holds another balance than before
BalanceWritten(before, after) ==
    \E pk \in DOMAIN after :
        pk \notin DOMAIN before \/ after[pk].balance # before[pk].balance

\* C27: a request that creates, edits, deletes or duplicates a transaction,
\* through the web views or the REST API, leaves the table of accounts as it
\* was, and a step in which a balance is written is an account_add or an
\* account_edit.
C27_BalanceOnlyByAccountOps ==
    [][(response = NoResponse /\ response' # NoResponse) =>
          /\ response'.op \in TransactionOps => accounts' = accounts
          /\ BalanceWritten(accounts, accounts') =>
                 response'.op \in {"account_add", "account_edit"}]_vars

\* a transaction of an account whose balance was set by account_edit has been
\* deleted
C27_Witness ==
    /\ response # NoResponse
    /\ response.op = "transaction_delete"
    /\ response.status = 302
    /\ \E pk \in DOMAIN accounts :
           accounts[pk].user = response.user /\ accounts[pk].balance # 0

-----------------------------------------------------------------------------
(* Totals keyed by category name (checked under SpecOrder) *)

RECURSIVE SumOfSeries(_)
SumOfSeries(series) ==
    IF series = <<>> THEN 0 ELSE Head(series) + SumOfSeries(Tail(series))

\* the total of the user's transactions of the window that are attached to
\* categories of one kind
KindTotal(kind, user, days) ==
    SumOfAmounts({t \in BagToSet(ledger) :
                      /\ t.user = user
                      /\ DateFilter(days, today, t)
                      /\ \E c \in categories :
                             c.id = t.category /\ c.category_type = kind})

\* C28: the expenses returned by calculate_comparison_data add up to the
\* total of the user's in-window transactions attached to expense categories,
\* and the incomes to the total of those attached to income categories, also
\* when several categories share one name.
C28_NoAmountLostByName ==
    response.op = "comparison" =>
        /\ SumOfSeries(response.result.expenses) =
               KindTotal("expense", response.user, response.days)
        /\ SumOfSeries(response.result.incomes) =
               KindTotal("income", response.user, response.days)

-----------------------------------------------------------------------------
(* Properties of the investments view (checked under SpecInvestments) *)

\* the sum of the profits of the stocks whose price was obtained
RECURSIVE SumOfProfits(_)
SumOfProfits(stocks_data) ==
    IF stocks_data = <<>> THEN 0
    ELSE (IF Head(stocks_data).profit # None THEN Head(stocks_data).profit[1] ELSE 0)
         + SumOfProfits(Tail(stocks_data))

\* C29: total_profit of the investments view is the sum of the profits of
\* the stocks whose current price was obtained; a stock without a price adds
\* nothing to it.
C29_TotalProfitIsSumOfProfits ==
    response.op = "investments" =>
        response.context.total_profit = SumOfProfits(response.context.stocks_data)

-----------------------------------------------------------------------------
(* Properties of the list returned by get_top_cryptos (checked under        *)
(* SpecTopCryptos)                                                          *)

\* the entries of a list
EntriesOf(list) == {list[k] : k \in DOMAIN list}

\* C30: after a successful fetch get_top_cryptos(limit) returns at most limit
\* entries (none for a limit below zero), each made from a ticker of the feed whose symbol ends with USDT
\* and contains none of DOWN, UP, BEAR and BULL, in order of non-increasing
\* quote volume, and every ticker that passes the filter and is not returned
\* has at most the volume of each returned one.
C30_TopByVolume ==
    (/\ response.op = "get_top_cryptos"
     /\ response.contacted
     /\ response.answer.ok
     /\ HasSymbols(response.answer.data)) =>
        LET result == response.result
            data == response.answer.data
        IN  /\ Len(result) <= (IF response.limit < 0 THEN 0 ELSE response.limit)
            /\ \A k \in DOMAIN result :
                   \E i \in DOMAIN data :
                       IsUsdtPair(data[i]) /\ result[k] = FormatPair(data[i])
            /\ \A k \in 1 .. Len(result) - 1 :
                   result[k].volume_24h >= result[k + 1].volume_24h
            /\ \A i \in DOMAIN data :
                   (IsUsdtPair(data[i]) /\ FormatPair(data[i]) \notin EntriesOf(result)) =>
                       \A k \in DOMAIN result :
                           data[i].quoteVolume <= result[k].volume_24h

====
